---------------------------- MODULE Spec2Model ----------------------------
(* LazyQueue and EagerQueue of src/src/hashqueue.h: a binary min-heap of   *)
(* heap-allocated entries keyed by time, plus an identity index from ID to *)
(* entry pointer.  One behaviour drives one queue object (variant) from    *)
(* construction; every action is one public member function call, run to   *)
(* completion.  Entries live in mem, a table of heap cells; the backing    *)
(* array data and the index m hold addresses of cells, as the code's       *)
(* vector and unordered_map hold pointers.  Pointer values are not         *)
(* observable, so each call stores its result with the cells renamed by    *)
(* array position (Store): the cell of slot i gets address i+1, and a      *)
(* pointer to a deleted cell becomes Dangling.  Assertions are compiled in *)
(* (the test build needs them for its death tests): a failed assertion     *)
(* aborts the process, alive becomes FALSE and nothing runs afterwards.    *)
(* std::push_heap and std::pop_heap are computed as libstdc++ computes     *)
(* them.  Times are small integers standing for doubles (no NaN).          *)
(* Spec constructs the queue empty with T = ID and no id_func; SpecObj     *)
(* also constructs it with an id_func, or with a payload type that does    *)
(* not convert to ID; SpecBulk constructs a LazyQueue from a vector of     *)
(* pairs and runs it beside a LazyQueue filled by pushes; SpecHeap makes   *)
(* one remove or reschedule call on an EagerQueue that pushes have filled  *)
(* with up to HeapLen entries.  SpecRandom drives RandomSet and RandomDict *)
(* of randomdict.h: two containers constructed with one seed and given the *)
(* same calls.  SpecEquiv gives an EagerQueue and a LazyQueue the same      *)
(* calls, destruction included.                                            *)
EXTENDS Integers, Sequences, FiniteSets, TLC

\* ---------------------------------------------------------------- bounds
NumIds == 3                  \* keys offered to an EagerQueue
NumLazyIds == 2              \* keys offered to a LazyQueue
MaxTime == 3
MaxLen == 3                  \* pushes are offered while the array is shorter
HeapLen == 6                 \* entries of the largest EagerQueue constructed ready-made
NumKeys == 3                 \* keys offered to a RandomSet or RandomDict
NumVals == 2                 \* values offered to a RandomDict
NumRng == 3                  \* states of the generator, and seeds

Ids == 1..NumIds
LazyIds == 1..NumLazyIds
Payloads == Ids              \* T = ID: the payload is its own key
LazyPayloads == LazyIds
Times == 1..MaxTime
Addrs == 1..MaxLen           \* heap cells; at most MaxLen entries are allocated
Dangling == 0                \* the address of a deleted cell

VARIABLES
    variant,   \* "lazy" or "eager": the class of the queue object
    id_func,   \* QueueBase::id_func: NoFunc (std::nullopt) or "f", the function IdOf
    convertible, \* the template arguments: TRUE when a T converts to or constructs an ID
    data,      \* _data: sequence of entry addresses (index i of the code is data[i+1])
    size,      \* LazyQueue::_size (stays 0 for an EagerQueue, which has no such member)
    m,         \* _m: function from the indexed IDs to entry addresses
    mem,       \* heap cells: the entry object at each address, or FreeCell
    alive,     \* FALSE once the process has aborted
    op,        \* the last call: name, argument, outcome and returned value
    live,      \* history: (time, payload) pairs pushed and not since popped or removed
    surv,      \* history: pairs pushed and not removed, while only push/remove/pop were called
    popped,    \* history: pairs returned by the current run of consecutive pops
    phase,     \* history: "fill" (only pushes/removes so far), "drain" (then only pops), "mixed"
    ref,       \* a second LazyQueue that receives the same calls (NoRef when there is none)
    refop,     \* outcome and returned value of the last call on ref
    kind,      \* "set" or "dict": RandomSet or RandomDict ("none" while a queue is driven)
    cont,      \* two containers of that class, created with one seed, given the same calls
    cop        \* the last call on the containers: name, argument, what each returned

\* what no member function changes: the class and the construction-time configuration
config == <<variant, id_func, convertible>>
\* the second queue
reference == <<ref, refop>>
\* the random containers, which no queue call touches
containers == <<kind, cont, cop>>

vars == <<variant, id_func, convertible, data, size, m, mem, alive, op,
          live, surv, popped, phase, ref, refop, kind, cont, cop>>

\* ------------------------------------------------------------ entry cells
FreeCell == [alloc |-> FALSE, time |-> 0, payload |-> 0, exist |-> FALSE, loc |-> 0]

\* variant of LazyEntry: the exist flag is not set on construction
LazyEntry_NotExist(time, payload) ==
    [alloc |-> TRUE, time |-> time, payload |-> payload, exist |-> FALSE, loc |-> 0]

LazyEntry(time, payload) ==
    [alloc |-> TRUE, time |-> time, payload |-> payload, exist |-> TRUE, loc |-> 0]

EagerEntry(loc, time, payload) ==
    [alloc |-> TRUE, time |-> time, payload |-> payload, exist |-> TRUE, loc |-> loc]

\* operator new: some cell that is not allocated (the lowest, addresses are opaque)
NewAddr(mm) == CHOOSE a \in Addrs : ~mm[a].alloc /\ \A b \in Addrs : ~mm[b].alloc => a <= b

NoFunc == "none"                 \* id_func holds no function
NoId == 0                        \* convert returns no ID: it reached assert(false)

\* the extraction function given to the constructor when there is one: any
\* injective function that is not the identity (it exchanges 1 and 2)
IdOf(payload) == IF payload = 1 THEN 2 ELSE IF payload = 2 THEN 1 ELSE payload

\* variant of convert: without id_func the payload is always taken as the ID
convert_Unchecked(payload) == IF id_func # NoFunc THEN IdOf(payload) ELSE payload

\* variant of convert: id_func is ignored
convert_NoFunc(payload) == IF convertible THEN payload ELSE NoId

\* QueueBase::convert: id_func when there is one, else the payload itself
\* when T stands in for ID, else the failed assertion
convert(payload) ==
    IF id_func # NoFunc THEN IdOf(payload)
    ELSE IF convertible THEN payload
    ELSE NoId

\* variant of compare: the comparison is not inverted (a max-heap)
compare_Flipped(mm, e1, e2) == mm[e1].time < mm[e2].time

\* detail::compare: true if e1 is later than e2, which turns std's max-heap into a min-heap
compare(mm, e1, e2) == mm[e1].time > mm[e2].time

\* array d, cells mm and index mp with the cells renamed by array position
Stored(d, mm, mp) ==
    LET slot(a) == IF \E i \in 1..Len(d) : d[i] = a
                   THEN CHOOSE i \in 1..Len(d) : d[i] = a
                   ELSE Dangling
    IN [data |-> [i \in 1..Len(d) |-> i],
        mem |-> [a \in DOMAIN mm |->
                    IF a \in 1..Len(d) THEN mm[d[a]] ELSE FreeCell],
        m |-> [id \in DOMAIN mp |-> slot(mp[id])]]

\* the state a call leaves behind: array d, cells mm and index mp, with the
\* cells renamed by array position
Store(d, mm, mp) ==
    LET c == Stored(d, mm, mp)
    IN /\ data' = c.data
       /\ mem' = c.mem
       /\ m' = c.m

\* ------------------------------------------------- unordered_map helpers
\* variant of count: the key is never reported present
count_Zero(mp, id) == 0

\* _m.count(id)
count(mp, id) == IF id \in DOMAIN mp THEN 1 ELSE 0

\* variant of Emplace: the entry is not indexed
Emplace_Skip(mp, id, a) == mp

\* _m.emplace(id, entry): inserts only when the key is absent
Emplace(mp, id, a) ==
    IF id \in DOMAIN mp THEN mp
    ELSE [x \in (DOMAIN mp) \cup {id} |-> IF x = id THEN a ELSE mp[x]]

\* variant of Erase: the mapping stays in the index
Erase_Noop(mp, id) == mp

\* _m.erase(id) / _m.erase(it)
Erase(mp, id) == [x \in (DOMAIN mp) \ {id} |-> mp[x]]

\* ------------------------------------------------------- vector helpers
At(s, i) == s[i + 1]                              \* s[i], 0-based
Put(s, i, v) == [s EXCEPT ![i + 1] = v]           \* s[i] = v
PopBack(s) == SubSeq(s, 1, Len(s) - 1)
Back(s) == s[Len(s)]

\* ------------------------------------------ std::push_heap / std::pop_heap
\* __push_heap: move the hole up while the parent compares later than value
RECURSIVE StdPushHeapFrom(_, _, _, _, _)
StdPushHeapFrom(mm, s, hole, top, value) ==
    LET parent == (hole - 1) \div 2 IN
    IF hole > top /\ compare(mm, At(s, parent), value)
    THEN StdPushHeapFrom(mm, Put(s, hole, At(s, parent)), parent, top, value)
    ELSE Put(s, hole, value)

\* std::push_heap(first, last, comp): sift the last element up
PushHeap(mm, s) ==
    IF Len(s) = 0 THEN s ELSE StdPushHeapFrom(mm, s, Len(s) - 1, 0, Back(s))

\* the while loop of __adjust_heap: walk the hole down along the earlier child
RECURSIVE StdAdjustDown(_, _, _, _, _)
StdAdjustDown(mm, s, hole, child, len) ==
    IF child < (len - 1) \div 2
    THEN LET c2 == 2 * (child + 1)
             c  == IF compare(mm, At(s, c2), At(s, c2 - 1)) THEN c2 - 1 ELSE c2
         IN StdAdjustDown(mm, Put(s, hole, At(s, c)), c, c, len)
    ELSE [s |-> s, hole |-> hole, child |-> child]

\* __adjust_heap(first, hole, len, value, comp)
StdAdjustHeap(mm, s, hole, len, value) ==
    LET d == StdAdjustDown(mm, s, hole, hole, len)
        e == IF len % 2 = 0 /\ d.child = (len - 2) \div 2
             THEN LET c2 == 2 * (d.child + 1)
                  IN [s |-> Put(d.s, d.hole, At(d.s, c2 - 1)), hole |-> c2 - 1]
             ELSE [s |-> d.s, hole |-> d.hole]
    IN StdPushHeapFrom(mm, e.s, e.hole, hole, value)

\* std::pop_heap(first, last, comp): the root goes to the last slot, the rest is a heap
PopHeap(mm, s) ==
    IF Len(s) > 1
    THEN LET n == Len(s) - 1
             value == Back(s)
             s1 == Put(s, n, At(s, 0))
         IN StdAdjustHeap(mm, s1, 0, n, value)
    ELSE s

\* the loop of __make_heap: sift the value of each inner slot down, last parent first
RECURSIVE StdMakeHeapFrom(_, _, _, _)
StdMakeHeapFrom(mm, s, parent, len) ==
    LET s1 == StdAdjustHeap(mm, s, parent, len, At(s, parent))
    IN IF parent = 0 THEN s1 ELSE StdMakeHeapFrom(mm, s1, parent - 1, len)

\* variant of MakeHeap: the array is left in input order
MakeHeap_Noop(mm, s) == s

\* std::make_heap(first, last, comp)
MakeHeap(mm, s) ==
    IF Len(s) < 2 THEN s ELSE StdMakeHeapFrom(mm, s, (Len(s) - 2) \div 2, Len(s))

\* ------------------------------------------------------ history variables
NoRet == <<>>
Call(name, arg, outcome, ret) == [name |-> name, arg |-> arg, outcome |-> outcome, ret |-> ret]

\* a call that returned normally
Returned(name, arg, ret) ==
    /\ alive' = TRUE
    /\ op' = Call(name, arg, "ok", ret)

\* a call that threw std::runtime_error: the caller catches it and goes on
Threw(name, arg, error) ==
    /\ alive' = TRUE
    /\ op' = Call(name, arg, error, NoRet)
    /\ UNCHANGED <<live, surv, popped, phase>>

\* a call that aborted the process (failed assert, or a fault of undefined behaviour)
Aborted(name, arg, error) ==
    /\ alive' = FALSE
    /\ op' = Call(name, arg, error, NoRet)
    /\ UNCHANGED <<live, surv, popped, phase>>

HistPush(time, payload) ==
    /\ live' = live \cup {<<time, payload>>}
    /\ phase' = IF phase = "fill" THEN "fill" ELSE "mixed"
    /\ surv' = IF phase = "fill" THEN surv \cup {<<time, payload>>} ELSE {}
    /\ popped' = <<>>

HistRemove(id) ==
    /\ live' = {e \in live : convert(e[2]) # id}
    /\ phase' = IF phase = "fill" THEN "fill" ELSE "mixed"
    /\ surv' = IF phase = "fill" THEN {e \in surv : convert(e[2]) # id} ELSE {}
    /\ popped' = <<>>

HistPop(ret) ==
    /\ live' = live \ {ret}
    /\ phase' = IF phase \in {"fill", "drain"} THEN "drain" ELSE "mixed"
    /\ surv' = surv
    /\ popped' = Append(popped, ret)

HistPeek ==
    /\ live' = live
    /\ phase' = "mixed"
    /\ surv' = {}
    /\ popped' = <<>>

HistReschedule(id, new_time) ==
    /\ live' = {IF convert(e[2]) = id THEN <<new_time, e[2]>> ELSE e : e \in live}
    /\ phase' = "mixed"
    /\ surv' = {}
    /\ popped' = <<>>

\* ------------------------------------------------------------- LazyQueue
\* LazyQueue::push
LazyPush(time, payload) ==
    /\ alive /\ variant = "lazy"
    /\ Len(data) < MaxLen
    /\ LET id == convert(payload) IN
       IF id = NoId
       THEN /\ Aborted("push", payload, "ConversionError")     \* assert(false) in convert
            /\ UNCHANGED <<config, containers, reference, data, size, m, mem>>
       ELSE IF count(m, id) # 0
       THEN /\ Aborted("push", payload, "DuplicateKeyError")   \* assert(!_m.count(id))
            /\ UNCHANGED <<config, containers, reference, data, size, m, mem>>
       ELSE LET entry == NewAddr(mem)
                mem1 == [mem EXCEPT ![entry] = LazyEntry(time, payload)]
            IN /\ size' = size + 1
               /\ Store(PushHeap(mem1, Append(data, entry)), mem1, Emplace(m, id, entry))
               /\ Returned("push", payload, NoRet)
               /\ HistPush(time, payload)
               /\ UNCHANGED <<config, containers, reference>>

\* variant of LazyPopLoop: the ID of every entry taken off the array is erased
\* from the index, tombstoned or not
RECURSIVE LazyPopLoop_EraseAlways(_, _, _, _)
LazyPopLoop_EraseAlways(d, mm, cnt, mp) ==
    IF cnt > 0
    THEN IF Len(d) = 0
         THEN [data |-> d, mem |-> mm, size |-> cnt, m |-> mp,
               outcome |-> "fault", ret |-> NoRet]
         ELSE LET d1 == PopHeap(mm, d)
                  entry == Back(d1)
                  entry_copy == mm[entry]
                  d2 == PopBack(d1)
                  mm2 == [mm EXCEPT ![entry] = FreeCell]
                  mp2 == Erase(mp, convert(entry_copy.payload))
              IN IF entry_copy.exist
                 THEN [data |-> d2, mem |-> mm2, size |-> cnt - 1, m |-> mp2,
                       outcome |-> "ok",
                       ret |-> <<entry_copy.time, entry_copy.payload>>]
                 ELSE LazyPopLoop_EraseAlways(d2, mm2, cnt, mp2)
    ELSE [data |-> d, mem |-> mm, size |-> cnt, m |-> mp,
          outcome |-> "EmptyQueueError", ret |-> NoRet]

\* the loop of LazyQueue::pop: pop roots until one exists; cnt is _size
RECURSIVE LazyPopLoop(_, _, _, _)
LazyPopLoop(d, mm, cnt, mp) ==
    IF cnt > 0
    THEN IF Len(d) = 0
         THEN [data |-> d, mem |-> mm, size |-> cnt, m |-> mp,
               outcome |-> "fault", ret |-> NoRet]        \* back() of an empty vector
         ELSE LET d1 == PopHeap(mm, d)
                  entry == Back(d1)
                  entry_copy == mm[entry]
                  d2 == PopBack(d1)
                  mm2 == [mm EXCEPT ![entry] = FreeCell]
              IN IF entry_copy.exist
                 THEN IF count(mp, convert(entry_copy.payload)) # 0
                      THEN [data |-> d2, mem |-> mm2, size |-> cnt - 1,
                            m |-> Erase(mp, convert(entry_copy.payload)),
                            outcome |-> "ok",
                            ret |-> <<entry_copy.time, entry_copy.payload>>]
                      ELSE [data |-> d2, mem |-> mm2, size |-> cnt - 1, m |-> mp,
                            outcome |-> "fault", ret |-> NoRet]   \* assert(_m.count(..))
                 ELSE LazyPopLoop(d2, mm2, cnt, mp)
    ELSE [data |-> d, mem |-> mm, size |-> cnt, m |-> mp,
          outcome |-> "EmptyQueueError", ret |-> NoRet]   \* throw "Empty Queue"

\* LazyQueue::pop
LazyPop ==
    /\ alive /\ variant = "lazy"
    /\ LET r == LazyPopLoop(data, mem, size, m) IN
       /\ Store(r.data, r.mem, r.m)
       /\ size' = r.size
       /\ UNCHANGED <<config, containers, reference>>
       /\ CASE r.outcome = "ok" -> Returned("pop", 0, r.ret) /\ HistPop(r.ret)
            [] r.outcome = "EmptyQueueError" -> Threw("pop", 0, "EmptyQueueError")
            [] OTHER -> Aborted("pop", 0, "fault")

\* variant of LazyPeekLoop: the loop runs while the array is not empty
RECURSIVE LazyPeekLoop_PurgeAll(_, _, _)
LazyPeekLoop_PurgeAll(d, mm, cnt) ==
    IF Len(d) > 0
    THEN LET entry == At(d, 0) IN
         IF mm[entry].exist
         THEN [data |-> d, mem |-> mm, outcome |-> "ok",
               ret |-> <<mm[entry].time, mm[entry].payload>>]
         ELSE LazyPeekLoop_PurgeAll(PopBack(PopHeap(mm, d)),
                                    [mm EXCEPT ![entry] = FreeCell], cnt)
    ELSE [data |-> d, mem |-> mm, outcome |-> "EmptyQueueError", ret |-> NoRet]

\* variant of LazyPeekLoop: the existing root is returned and taken off the array
RECURSIVE LazyPeekLoop_Consume(_, _, _)
LazyPeekLoop_Consume(d, mm, cnt) ==
    IF cnt > 0
    THEN IF Len(d) = 0
         THEN [data |-> d, mem |-> mm, outcome |-> "fault", ret |-> NoRet]
         ELSE LET entry == At(d, 0)
                  d1 == PopBack(PopHeap(mm, d))
                  mm1 == [mm EXCEPT ![entry] = FreeCell]
              IN IF mm[entry].exist
                 THEN [data |-> d1, mem |-> mm1, outcome |-> "ok",
                       ret |-> <<mm[entry].time, mm[entry].payload>>]
                 ELSE LazyPeekLoop_Consume(d1, mm1, cnt)
    ELSE [data |-> d, mem |-> mm, outcome |-> "EmptyQueueError", ret |-> NoRet]

\* variant of LazyPeekLoop: the root is returned without looking at its exist flag
LazyPeekLoop_NoPurge(d, mm, cnt) ==
    IF cnt > 0 /\ Len(d) > 0
    THEN [data |-> d, mem |-> mm, outcome |-> "ok",
          ret |-> <<mm[At(d, 0)].time, mm[At(d, 0)].payload>>]
    ELSE [data |-> d, mem |-> mm, outcome |-> "EmptyQueueError", ret |-> NoRet]

\* the loop of LazyQueue::peek: discard roots that no longer exist
RECURSIVE LazyPeekLoop(_, _, _)
LazyPeekLoop(d, mm, cnt) ==
    IF cnt > 0
    THEN IF Len(d) = 0
         THEN [data |-> d, mem |-> mm, outcome |-> "fault", ret |-> NoRet]  \* _data[0] of an empty vector
         ELSE LET entry == At(d, 0) IN
              IF mm[entry].exist
              THEN [data |-> d, mem |-> mm, outcome |-> "ok",
                    ret |-> <<mm[entry].time, mm[entry].payload>>]
              ELSE LazyPeekLoop(PopBack(PopHeap(mm, d)), [mm EXCEPT ![entry] = FreeCell], cnt)
    ELSE [data |-> d, mem |-> mm, outcome |-> "EmptyQueueError", ret |-> NoRet]

\* LazyQueue::peek
LazyPeek ==
    /\ alive /\ variant = "lazy"
    /\ LET r == LazyPeekLoop(data, mem, size) IN
       /\ Store(r.data, r.mem, m)
       /\ UNCHANGED <<config, containers, reference, size>>
       /\ CASE r.outcome = "ok" -> Returned("peek", 0, r.ret) /\ HistPeek
            [] r.outcome = "EmptyQueueError" -> Threw("peek", 0, "EmptyQueueError")
            [] OTHER -> Aborted("peek", 0, "fault")

\* variant of LazyRemove: the entry is taken out of the array at once and
\* the rest is made a heap again
LazyRemove_Compact(id) ==
    /\ alive /\ variant = "lazy"
    /\ IF id \in DOMAIN m /\ mem[m[id]].exist
       THEN LET entry == m[id]
                d1 == SelectSeq(data, LAMBDA x : x # entry)
                mem1 == [mem EXCEPT ![entry] = FreeCell]
            IN
            /\ Store(MakeHeap(mem1, d1), mem1, Erase(m, id))
            /\ size' = size - 1
            /\ Returned("remove", id, NoRet)
            /\ HistRemove(id)
            /\ UNCHANGED <<config, containers, reference>>
       ELSE /\ Aborted("remove", id, "NotFoundError")
            /\ UNCHANGED <<config, containers, reference, data, size, m, mem>>

\* LazyQueue::remove
LazyRemove(id) ==
    /\ alive /\ variant = "lazy"
    /\ IF id \in DOMAIN m /\ mem[m[id]].exist
       THEN LET entry == m[id] IN
            /\ m' = Erase(m, id)
            /\ mem' = [mem EXCEPT ![entry].exist = FALSE]
            /\ size' = size - 1
            /\ Returned("remove", id, NoRet)
            /\ HistRemove(id)
            /\ UNCHANGED <<config, containers, reference, data>>
       ELSE /\ Aborted("remove", id, "NotFoundError")   \* assert(it!=_m.end() && it->second->exist)
            /\ UNCHANGED <<config, containers, reference, data, size, m, mem>>

\* ------------------------------------------------------------ EagerQueue
left(i) == 2 * i + 1
right(i) == 2 * i + 2
parent(i) == (i - 1) \div 2

\* variant of SwapSlots: only the entry that moved to slot i gets its loc updated
SwapSlots_OneLoc(st, i, j) ==
    LET d == Put(Put(st.data, i, At(st.data, j)), j, At(st.data, i))
    IN [data |-> d, mem |-> [st.mem EXCEPT ![At(d, i)].loc = i]]

\* std::swap(_data[i], _data[j]) followed by the two loc updates
SwapSlots(st, i, j) ==
    LET d == Put(Put(st.data, i, At(st.data, j)), j, At(st.data, i))
    IN [data |-> d,
        mem |-> [st.mem EXCEPT ![At(d, i)].loc = i, ![At(d, j)].loc = j]]

\* EagerQueue::perc_down; moved is its return value
RECURSIVE perc_down(_, _)
perc_down(st, idx) ==
    LET n == Len(st.data)
        T(i) == st.mem[At(st.data, i)].time
        left_idx == left(idx)
        right_idx == right(idx)
        min1 == IF left_idx < n /\ T(left_idx) < T(idx) THEN left_idx ELSE idx
        min_idx == IF right_idx < n /\ T(right_idx) < T(min1) THEN right_idx ELSE min1
    IN IF min_idx = idx
       THEN [data |-> st.data, mem |-> st.mem, moved |-> FALSE]
       ELSE LET r == perc_down(SwapSlots(st, idx, min_idx), min_idx)
            IN [data |-> r.data, mem |-> r.mem, moved |-> TRUE]

\* variant of perc_up: an entry also moves above a parent of equal time
RECURSIVE perc_up_OnTies(_, _)
perc_up_OnTies(st, idx) ==
    IF idx = 0 THEN [data |-> st.data, mem |-> st.mem]
    ELSE LET parent_idx == parent(idx)
             T(i) == st.mem[At(st.data, i)].time
         IN IF T(idx) <= T(parent_idx)
            THEN perc_up_OnTies(SwapSlots(st, idx, parent_idx), parent_idx)
            ELSE [data |-> st.data, mem |-> st.mem]

\* EagerQueue::perc_up
RECURSIVE perc_up(_, _)
perc_up(st, idx) ==
    IF idx = 0 THEN [data |-> st.data, mem |-> st.mem]
    ELSE LET parent_idx == parent(idx)
             T(i) == st.mem[At(st.data, i)].time
         IN IF T(idx) < T(parent_idx)
            THEN perc_up(SwapSlots(st, idx, parent_idx), parent_idx)
            ELSE [data |-> st.data, mem |-> st.mem]

\* variant of fix: sift down only
fix_DownOnly(st, idx) ==
    LET r == perc_down(st, idx) IN [data |-> r.data, mem |-> r.mem]

\* variant of fix: sift up only
fix_UpOnly(st, idx) == perc_up(st, idx)

\* EagerQueue::fix: sift down, and sift up only if nothing moved down
fix(st, idx) ==
    LET r == perc_down(st, idx)
    IN IF r.moved THEN [data |-> r.data, mem |-> r.mem]
       ELSE perc_up([data |-> r.data, mem |-> r.mem], idx)

\* variant of EagerPush: the entry is appended before the duplicate test
EagerPush_AppendFirst(time, payload) ==
    /\ alive /\ variant = "eager"
    /\ Len(data) < MaxLen
    /\ LET id == convert(payload)
           entry == NewAddr(mem)
           mem1 == [mem EXCEPT ![entry] = EagerEntry(Len(data), time, payload)]
           d1 == Append(data, entry)
       IN IF id = NoId \/ count(m, id) # 0
          THEN /\ Store(d1, mem1, m)
               /\ Aborted("push", payload, "DuplicateKeyError")
               /\ UNCHANGED <<config, containers, reference, size>>
          ELSE LET r == perc_up([data |-> d1, mem |-> mem1], Len(d1) - 1)
               IN /\ Store(r.data, r.mem, Emplace(m, id, entry))
                  /\ Returned("push", payload, NoRet)
                  /\ HistPush(time, payload)
                  /\ UNCHANGED <<config, containers, reference, size>>

\* EagerQueue::push
EagerPush(time, payload) ==
    /\ alive /\ variant = "eager"
    /\ Len(data) < MaxLen
    /\ LET id == convert(payload) IN
       IF id = NoId
       THEN /\ Aborted("push", payload, "ConversionError")     \* assert(false) in convert
            /\ UNCHANGED <<config, containers, reference, data, size, m, mem>>
       ELSE IF count(m, id) # 0
       THEN /\ Aborted("push", payload, "DuplicateKeyError")   \* assert(!_m.count(id))
            /\ UNCHANGED <<config, containers, reference, data, size, m, mem>>
       ELSE LET entry == NewAddr(mem)
                mem1 == [mem EXCEPT ![entry] = EagerEntry(Len(data), time, payload)]
                d1 == Append(data, entry)
                r == perc_up([data |-> d1, mem |-> mem1], Len(d1) - 1)
            IN /\ Store(r.data, r.mem, Emplace(m, id, entry))
               /\ Returned("push", payload, NoRet)
               /\ HistPush(time, payload)
               /\ UNCHANGED <<config, containers, reference, size>>

\* the tail of EagerQueue::pop, from perc_down(0) on
EagerPopFinish(top, st) ==
    LET r == perc_down(st, 0)
        top_copy == r.mem[top]
        id == convert(top_copy.payload)
        mem1 == [r.mem EXCEPT ![top] = FreeCell]
    IN /\ UNCHANGED <<config, containers, reference, size>>
       /\ IF count(m, id) # 0
          THEN /\ Store(r.data, mem1, Erase(m, id))
               /\ Returned("pop", 0, <<top_copy.time, top_copy.payload>>)
               /\ HistPop(<<top_copy.time, top_copy.payload>>)
          ELSE /\ Store(r.data, mem1, m)
               /\ Aborted("pop", 0, "fault")        \* assert(_m.count(..))

\* EagerQueue::pop.  With one entry left, _data[0]->loc = 0 subscripts the
\* vector after pop_back has emptied it: undefined behaviour.  Unchecked, the
\* slot still holds top's address and the write lands in top ("stale");
\* a bounds-checked operator[] aborts ("fault").
EagerPop ==
    /\ alive /\ variant = "eager"
    /\ IF Len(data) = 0
       THEN /\ Threw("pop", 0, "EmptyQueueError")
            /\ UNCHANGED <<config, containers, reference, data, size, m, mem>>
       ELSE LET top == At(data, 0)
                d1 == PopBack(Put(data, 0, Back(data)))
            IN IF Len(d1) > 0
               THEN EagerPopFinish(top, [data |-> d1,
                                         mem |-> [mem EXCEPT ![At(d1, 0)].loc = 0]])
               ELSE \E ub \in {"stale", "fault"} :
                      IF ub = "stale"
                      THEN EagerPopFinish(top, [data |-> d1,
                                                mem |-> [mem EXCEPT ![top].loc = 0]])
                      ELSE /\ data' = d1
                           /\ Aborted("pop", 0, "fault")
                           /\ UNCHANGED <<config, containers, reference, size, m, mem>>

\* EagerQueue::peek.  It has no emptiness test: on an empty queue _data[0] is
\* undefined behaviour, which either faults or yields whatever the stale
\* storage holds (any pair).
EagerPeek ==
    /\ alive /\ variant = "eager"
    /\ UNCHANGED <<config, containers, reference, data, size, m, mem>>
    /\ IF Len(data) > 0
       THEN LET entry == At(data, 0) IN
            /\ Returned("peek", 0, <<mem[entry].time, mem[entry].payload>>)
            /\ HistPeek
       ELSE \E ub \in {"fault"} \cup (Times \X Payloads) :
              IF ub = "fault"
              THEN Aborted("peek", 0, "fault")
              ELSE /\ alive' = TRUE
                   /\ op' = Call("peek", 0, "undefined", ub)
                   /\ HistPeek

\* variant of EagerRemove: the last entry is not moved into the freed slot
EagerRemove_NoMove(id) ==
    /\ alive /\ variant = "eager"
    /\ IF id \in DOMAIN m /\ Len(data) > 0
       THEN LET removed_entry == m[id]
                loc == mem[removed_entry].loc
                mem1 == [mem EXCEPT ![removed_entry] = FreeCell]
            IN /\ Returned("remove", id, NoRet)
               /\ HistRemove(id)
               /\ UNCHANGED <<config, containers, reference, size>>
               /\ IF loc = Len(data) - 1
                  THEN Store(PopBack(data), mem1, Erase(m, id))
                  ELSE Store(PopBack(data), mem1, Erase(m, id))
       ELSE /\ Aborted("remove", id, "NotFoundError")   \* assert(it!=_m.end())
            /\ UNCHANGED <<config, containers, reference, data, size, m, mem>>

\* EagerQueue::remove
EagerRemove(id) ==
    /\ alive /\ variant = "eager"
    /\ IF id \in DOMAIN m /\ Len(data) > 0
       THEN LET removed_entry == m[id]
                loc == mem[removed_entry].loc
                mem1 == [mem EXCEPT ![removed_entry] = FreeCell]
            IN /\ Returned("remove", id, NoRet)
               /\ HistRemove(id)
               /\ UNCHANGED <<config, containers, reference, size>>
               /\ IF loc = Len(data) - 1
                  THEN Store(PopBack(data), mem1, Erase(m, id))
                  ELSE LET d1 == PopBack(Put(data, loc, Back(data)))
                           r == fix([data |-> d1,
                                     mem |-> [mem1 EXCEPT ![At(d1, loc)].loc = loc]], loc)
                       IN Store(r.data, r.mem, Erase(m, id))
       ELSE /\ Aborted("remove", id, "NotFoundError")   \* assert(it!=_m.end())
            /\ UNCHANGED <<config, containers, reference, data, size, m, mem>>

\* variant of EagerReschedule: an absent ID is not detected, the call returns
EagerReschedule_Unchecked(id, new_time) ==
    /\ alive /\ variant = "eager"
    /\ IF id \in DOMAIN m
       THEN LET e == m[id]
                mem1 == [mem EXCEPT ![e].time = new_time]
                r == fix([data |-> data, mem |-> mem1], mem1[e].loc)
            IN /\ Store(r.data, r.mem, m)
               /\ Returned("reschedule", id, NoRet)
               /\ HistReschedule(id, new_time)
               /\ UNCHANGED <<config, containers, reference, size>>
       ELSE /\ Returned("reschedule", id, NoRet)
            /\ HistReschedule(id, new_time)
            /\ UNCHANGED <<config, containers, reference, data, size, m, mem>>

\* EagerQueue::reschedule
EagerReschedule(id, new_time) ==
    /\ alive /\ variant = "eager"
    /\ IF id \in DOMAIN m
       THEN LET e == m[id]
                mem1 == [mem EXCEPT ![e].time = new_time]
                r == fix([data |-> data, mem |-> mem1], mem1[e].loc)
            IN /\ Store(r.data, r.mem, m)
               /\ Returned("reschedule", id, NoRet)
               /\ HistReschedule(id, new_time)
               /\ UNCHANGED <<config, containers, reference, size>>
       ELSE /\ Aborted("reschedule", id, "NotFoundError")   \* assert(it!=_m.end())
            /\ UNCHANGED <<config, containers, reference, data, size, m, mem>>

\* EagerQueue::contains
EagerContains(id) ==
    /\ alive /\ variant = "eager"
    /\ alive' = TRUE
    /\ op' = Call("contains", id, "ok", id \in DOMAIN m)
    /\ UNCHANGED <<config, containers, reference, data, size, m, mem, live, surv, popped, phase>>

\* variant of Size: a LazyQueue reports the raw array length
Size_RawLength == Len(data)

\* LazyQueue::size / EagerQueue::size
Size == IF variant = "lazy" THEN size ELSE Len(data)

\* -------------------------------------------------------------- the system
NoRef == <<>>

\* LazyQueue() / EagerQueue() with T = ID: an empty queue, no id_func
Init ==
    /\ kind = "none" /\ cont = <<>> /\ cop = NoRet
    /\ variant \in {"lazy", "eager"}
    /\ id_func = NoFunc
    /\ convertible = TRUE
    /\ ref = NoRef
    /\ refop = NoRet
    /\ data = <<>>
    /\ size = 0
    /\ m = <<>>
    /\ mem = [a \in Addrs \cup {Dangling} |-> FreeCell]
    /\ alive = TRUE
    /\ op = Call("init", 0, "ok", NoRet)
    /\ live = {}
    /\ surv = {}
    /\ popped = <<>>
    /\ phase = "fill"

Next ==
    \/ \E time \in Times, payload \in LazyPayloads : LazyPush(time, payload)
    \/ LazyPop
    \/ LazyPeek
    \/ \E id \in LazyIds : LazyRemove(id)
    \/ \E time \in Times, payload \in Payloads : EagerPush(time, payload)
    \/ EagerPop
    \/ EagerPeek
    \/ \E id \in Ids : EagerRemove(id)
    \/ \E id \in Ids, new_time \in Times : EagerReschedule(id, new_time)
    \/ \E id \in Ids : EagerContains(id)

Spec == Init /\ [][Next]_vars

\* the constructions of the tests with payload objects: LazyQueue<T, ID>{} and
\* EagerQueue<T, ID>{} with or without an extraction function; without one,
\* T either stands in for ID or does not
InitObj ==
    /\ kind = "none" /\ cont = <<>> /\ cop = NoRet
    /\ variant \in {"lazy", "eager"}
    /\ \E c \in {<<"f", TRUE>>, <<NoFunc, TRUE>>, <<NoFunc, FALSE>>} :
          id_func = c[1] /\ convertible = c[2]
    /\ ref = NoRef
    /\ refop = NoRet
    /\ data = <<>>
    /\ size = 0
    /\ m = <<>>
    /\ mem = [a \in Addrs \cup {Dangling} |-> FreeCell]
    /\ alive = TRUE
    /\ op = Call("init", 0, "ok", NoRet)
    /\ live = {}
    /\ surv = {}
    /\ popped = <<>>
    /\ phase = "fill"

SpecObj == InitObj /\ [][Next]_vars

\* --------------------------------------------- two LazyQueues side by side
\* The member functions of LazyQueue as functions of a queue value
\* [data, mem, m, size]; each yields the queue it leaves, the outcome and the
\* returned value.  SpecBulk applies every call to a bulk-constructed queue
\* (the state proper) and to ref, a queue filled by pushes; of the history
\* variables it keeps live only.
Queue(d, mm, mp, cnt) ==
    LET c == Stored(d, mm, mp) IN [data |-> c.data, mem |-> c.mem, m |-> c.m, size |-> cnt]
Result(q, outcome, ret) == [q |-> q, outcome |-> outcome, ret |-> ret]

\* LazyQueue()
EmptyQueue == [data |-> <<>>, mem |-> [a \in Addrs \cup {Dangling} |-> FreeCell],
               m |-> <<>>, size |-> 0]

\* what a member function leaves, with the addresses as the code has them
Raw(d, mm, mp, cnt, outcome, ret) ==
    [data |-> d, mem |-> mm, m |-> mp, size |-> cnt, outcome |-> outcome, ret |-> ret]

\* a call that failed before its first write
Failed(q, error) == Raw(q.data, q.mem, q.m, q.size, error, NoRet)

\* the same with the cells renamed by array position
Canon(r) ==
    LET x == r IN Result(Queue(x.data, x.mem, x.m, x.size), x.outcome, x.ret)

\* LazyQueue::push
LazyPushedRaw(q, time, payload) ==
    LET id == convert(payload) IN
    IF id = NoId THEN Failed(q, "ConversionError")
    ELSE IF count(q.m, id) # 0 THEN Failed(q, "DuplicateKeyError")
    ELSE LET entry == NewAddr(q.mem)
             mem1 == [q.mem EXCEPT ![entry] = LazyEntry(time, payload)]
         IN Raw(PushHeap(mem1, Append(q.data, entry)), mem1,
                Emplace(q.m, id, entry), q.size + 1, "ok", NoRet)

LazyPushed(q, time, payload) == Canon(LazyPushedRaw(q, time, payload))

\* LazyQueue::pop
LazyPopped(q) ==
    LET r == LazyPopLoop(q.data, q.mem, q.size, q.m)
    IN Result(Queue(r.data, r.mem, r.m, r.size), r.outcome, r.ret)

\* LazyQueue::peek
LazyPeeked(q) ==
    LET r == LazyPeekLoop(q.data, q.mem, q.size)
    IN Result(Queue(r.data, r.mem, q.m, q.size), r.outcome, r.ret)

\* LazyQueue::remove
LazyRemoved(q, id) ==
    IF id \in DOMAIN q.m /\ q.mem[q.m[id]].exist
    THEN Result([q EXCEPT !.m = Erase(q.m, id), !.mem[q.m[id]].exist = FALSE,
                          !.size = q.size - 1], "ok", NoRet)
    ELSE Result(q, "NotFoundError", NoRet)

\* the loop of LazyQueue(F f, data) over the pairs left in input; _size is set before it
RECURSIVE BulkLoop(_, _, _, _, _)
BulkLoop(input, d, mm, mp, cnt) ==
    IF input = <<>> THEN Result(Queue(MakeHeap(mm, d), mm, mp, cnt), "ok", NoRet)
    ELSE LET time == input[1][1]
             payload == input[1][2]
             id == convert(payload)
         IN IF id = NoId THEN Result(Queue(d, mm, mp, cnt), "ConversionError", NoRet)
            ELSE IF count(mp, id) # 0
            THEN Result(Queue(d, mm, mp, cnt), "DuplicateKeyError", NoRet)
            ELSE LET entry == NewAddr(mm)
                     mm1 == [mm EXCEPT ![entry] = LazyEntry(time, payload)]
                 IN BulkLoop(Tail(input), Append(d, entry), mm1, Emplace(mp, id, entry), cnt)

\* LazyQueue(data): LazyQueue(std::nullopt, data)
BulkConstructed(input) == BulkLoop(input, <<>>, EmptyQueue.mem, <<>>, Len(input))

\* LazyQueue h; for (auto& [time, payload]: input) h.push(time, payload);
RECURSIVE PushedOneByOne(_, _)
PushedOneByOne(q, input) ==
    IF input = <<>> THEN Result(q, "ok", NoRet)
    ELSE LET r == LazyPushed(q, input[1][1], input[1][2])
         IN IF r.outcome = "ok" THEN PushedOneByOne(r.q, Tail(input)) ELSE r

\* the vectors given to the constructor: up to MaxLen pairs, times distinct
BulkInputs ==
    {input \in UNION {[1..n -> Times \X Payloads] : n \in 0..MaxLen} :
        \A i, j \in DOMAIN input : input[i][1] = input[j][1] => i = j}

\* outcomes after which the caller goes on: a return, or an exception it catches
Survives(outcome) == outcome \in {"ok", "EmptyQueueError"}

\* the call left a on the queue proper and b on ref
BothDid(name, arg, a, b) ==
    /\ data' = a.q.data /\ mem' = a.q.mem /\ m' = a.q.m /\ size' = a.q.size
    /\ alive' = Survives(a.outcome)
    /\ op' = Call(name, arg, a.outcome, a.ret)
    /\ ref' = b.q
    /\ refop' = [outcome |-> b.outcome, ret |-> b.ret]
    /\ UNCHANGED <<config, containers, surv, popped, phase>>

ThisQueue == [data |-> data, mem |-> mem, m |-> m, size |-> size]

\* h.push(time, payload) on both queues; time differs from the time of every
\* entry in either array
BulkPush(time, payload) ==
    /\ alive /\ Len(data) < MaxLen /\ Len(ref.data) < MaxLen
    /\ \A i \in 1..Len(data) : mem[data[i]].time # time
    /\ \A i \in 1..Len(ref.data) : ref.mem[ref.data[i]].time # time
    /\ LET a == LazyPushed(ThisQueue, time, payload) IN
       /\ BothDid("push", payload, a, LazyPushed(ref, time, payload))
       /\ live' = IF a.outcome = "ok" THEN live \cup {<<time, payload>>} ELSE live

\* h.pop() on both queues
BulkPop ==
    /\ alive
    /\ LET a == LazyPopped(ThisQueue) IN
       /\ BothDid("pop", 0, a, LazyPopped(ref))
       /\ live' = IF a.outcome = "ok" THEN live \ {a.ret} ELSE live

\* h.peek() on both queues
BulkPeek ==
    /\ alive
    /\ LET a == LazyPeeked(ThisQueue) IN
       /\ BothDid("peek", 0, a, LazyPeeked(ref))
       /\ live' = live

\* h.remove(id) on both queues
BulkRemove(id) ==
    /\ alive
    /\ LET a == LazyRemoved(ThisQueue, id) IN
       /\ BothDid("remove", id, a, LazyRemoved(ref, id))
       /\ live' = IF a.outcome = "ok" THEN {e \in live : convert(e[2]) # id} ELSE live

\* LazyQueue<T> h(input), beside a queue into which input was pushed pair by pair
InitBulk ==
    \E input \in BulkInputs :
        LET a == BulkConstructed(input)
            b == PushedOneByOne(EmptyQueue, input)
        IN /\ kind = "none" /\ cont = <<>> /\ cop = NoRet
           /\ variant = "lazy"
           /\ id_func = NoFunc
           /\ convertible = TRUE
           /\ data = a.q.data /\ mem = a.q.mem /\ m = a.q.m /\ size = a.q.size
           /\ alive = Survives(a.outcome)
           /\ op = Call("construct", input, a.outcome, NoRet)
           /\ ref = b.q
           /\ refop = [outcome |-> b.outcome, ret |-> b.ret]
           /\ live = IF a.outcome = "ok" THEN {input[i] : i \in DOMAIN input} ELSE {}
           /\ surv = {}
           /\ popped = <<>>
           /\ phase = "mixed"

NextBulk ==
    \/ \E time \in Times, payload \in Payloads : BulkPush(time, payload)
    \/ BulkPop
    \/ BulkPeek
    \/ \E id \in Ids : BulkRemove(id)

SpecBulk == InitBulk /\ [][NextBulk]_vars

\* ------------------------------------ an EagerQueue beside a LazyQueue
\* The member functions of EagerQueue as functions of a queue value (its size
\* field is not used: size() is the array length).  SpecEquiv applies every
\* call to an EagerQueue (the state proper) and to ref, a LazyQueue; the calls
\* are the valid ones: push of an ID not in the queue, remove of an ID in it,
\* pop and peek while an entry is left, with times that differ from the time
\* of every entry in either array.

\* EagerQueue::push
EagerPushedRaw(q, time, payload) ==
    LET id == convert(payload) IN
    IF id = NoId THEN Failed(q, "ConversionError")
    ELSE IF count(q.m, id) # 0 THEN Failed(q, "DuplicateKeyError")
    ELSE LET entry == NewAddr(q.mem)
             mem1 == [q.mem EXCEPT ![entry] = EagerEntry(Len(q.data), time, payload)]
             d1 == Append(q.data, entry)
             r == perc_up([data |-> d1, mem |-> mem1], Len(d1) - 1)
         IN Raw(r.data, r.mem, Emplace(q.m, id, entry), q.size, "ok", NoRet)

EagerPushed(q, time, payload) == Canon(EagerPushedRaw(q, time, payload))

\* the tail of EagerQueue::pop, from perc_down(0) on
EagerPoppedFinish(q, top, st) ==
    LET r == perc_down(st, 0)
        top_copy == r.mem[top]
        id == convert(top_copy.payload)
        mem1 == [r.mem EXCEPT ![top] = FreeCell]
    IN IF count(q.m, id) # 0
       THEN Raw(r.data, mem1, Erase(q.m, id), q.size, "ok",
                <<top_copy.time, top_copy.payload>>)
       ELSE Raw(r.data, mem1, q.m, q.size, "fault", NoRet)

\* EagerQueue::pop; ub is what the out-of-range _data[0] of a one-entry queue
\* does: "stale" (the slot still holds top) or "fault"
EagerPoppedRaw(q, ub) ==
    IF Len(q.data) = 0 THEN Failed(q, "EmptyQueueError")
    ELSE LET top == At(q.data, 0)
             d1 == PopBack(Put(q.data, 0, Back(q.data)))
         IN IF Len(d1) > 0
            THEN EagerPoppedFinish(q, top, [data |-> d1,
                                            mem |-> [q.mem EXCEPT ![At(d1, 0)].loc = 0]])
            ELSE IF ub = "stale"
            THEN EagerPoppedFinish(q, top, [data |-> d1,
                                            mem |-> [q.mem EXCEPT ![top].loc = 0]])
            ELSE Raw(d1, q.mem, q.m, q.size, "fault", NoRet)

EagerPopped(q, ub) == Canon(EagerPoppedRaw(q, ub))

\* EagerQueue::peek on a queue that is not empty
EagerPeeked(q) ==
    LET entry == At(q.data, 0)
    IN Result(q, "ok", <<q.mem[entry].time, q.mem[entry].payload>>)

\* variant of EagerRemovedRaw: the entry is not deleted
EagerRemovedRaw_NoDelete(q, id) ==
    IF id \in DOMAIN q.m /\ Len(q.data) > 0
    THEN LET removed_entry == q.m[id]
             loc == q.mem[removed_entry].loc
         IN IF loc = Len(q.data) - 1
            THEN Raw(PopBack(q.data), q.mem, Erase(q.m, id), q.size, "ok", NoRet)
            ELSE LET d1 == PopBack(Put(q.data, loc, Back(q.data)))
                     r == fix([data |-> d1,
                               mem |-> [q.mem EXCEPT ![At(d1, loc)].loc = loc]], loc)
                 IN Raw(r.data, r.mem, Erase(q.m, id), q.size, "ok", NoRet)
    ELSE Failed(q, "NotFoundError")

\* EagerQueue::remove
EagerRemovedRaw(q, id) ==
    IF id \in DOMAIN q.m /\ Len(q.data) > 0
    THEN LET removed_entry == q.m[id]
             loc == q.mem[removed_entry].loc
             mem1 == [q.mem EXCEPT ![removed_entry] = FreeCell]
         IN IF loc = Len(q.data) - 1
            THEN Raw(PopBack(q.data), mem1, Erase(q.m, id), q.size, "ok", NoRet)
            ELSE LET d1 == PopBack(Put(q.data, loc, Back(q.data)))
                     r == fix([data |-> d1,
                               mem |-> [mem1 EXCEPT ![At(d1, loc)].loc = loc]], loc)
                 IN Raw(r.data, r.mem, Erase(q.m, id), q.size, "ok", NoRet)
    ELSE Failed(q, "NotFoundError")

EagerRemoved(q, id) == Canon(EagerRemovedRaw(q, id))

\* the time is not the time of any entry in either array
FreshTime(time) ==
    /\ \A i \in 1..Len(data) : mem[data[i]].time # time
    /\ \A i \in 1..Len(ref.data) : ref.mem[ref.data[i]].time # time

\* push(time, payload) on both queues, the ID being in neither
EquivPush(time, payload) ==
    /\ alive /\ Len(data) < MaxLen /\ Len(ref.data) < MaxLen
    /\ FreshTime(time)
    /\ convert(payload) \notin DOMAIN m
    /\ BothDid("push", payload, EagerPushed(ThisQueue, time, payload),
               LazyPushed(ref, time, payload))
    /\ live' = live \cup {<<time, payload>>}

\* pop() on both queues, an entry being left
EquivPop ==
    /\ alive /\ live # {}
    /\ \E ub \in {"stale", "fault"} :
        LET a == EagerPopped(ThisQueue, ub) IN
        /\ BothDid("pop", 0, a, LazyPopped(ref))
        /\ live' = IF a.outcome = "ok" THEN live \ {a.ret} ELSE live

\* peek() on both queues, an entry being left
EquivPeek ==
    /\ alive /\ live # {}
    /\ BothDid("peek", 0, EagerPeeked(ThisQueue), LazyPeeked(ref))
    /\ live' = live

\* remove(id) on both queues, the ID being in the queue
EquivRemove(id) ==
    /\ alive /\ id \in DOMAIN m
    /\ BothDid("remove", id, EagerRemoved(ThisQueue, id), LazyRemoved(ref, id))
    /\ live' = {e \in live : convert(e[2]) # id}

\* ~EagerQueue / ~LazyQueue: every entry the array points to is deleted, then
\* the array and the index go
Destroyed(q) ==
    [data |-> <<>>, m |-> <<>>, size |-> 0,
     mem |-> [a \in DOMAIN q.mem |->
                IF \E i \in 1..Len(q.data) : q.data[i] = a THEN FreeCell ELSE q.mem[a]]]

\* both queues go out of scope
EquivDestroy ==
    /\ alive
    /\ LET a == Destroyed(ThisQueue) IN
       data' = a.data /\ mem' = a.mem /\ m' = a.m /\ size' = a.size
    /\ ref' = Destroyed(ref)
    /\ alive' = FALSE
    /\ op' = Call("destroy", 0, "ok", NoRet)
    /\ refop' = [outcome |-> "ok", ret |-> NoRet]
    /\ UNCHANGED <<config, containers, live, surv, popped, phase>>

\* EagerQueue<T> and LazyQueue<T>, both empty
InitEquiv ==
    /\ kind = "none" /\ cont = <<>> /\ cop = NoRet
    /\ variant = "eager" /\ id_func = NoFunc /\ convertible = TRUE
    /\ data = <<>> /\ size = 0 /\ m = <<>>
    /\ mem = [a \in Addrs \cup {Dangling} |-> FreeCell]
    /\ alive = TRUE
    /\ op = Call("init", 0, "ok", NoRet)
    /\ ref = EmptyQueue
    /\ refop = [outcome |-> "ok", ret |-> NoRet]
    /\ live = {} /\ surv = {} /\ popped = <<>> /\ phase = "mixed"

NextEquiv ==
    \/ \E time \in Times, payload \in Payloads : EquivPush(time, payload)
    \/ EquivPop
    \/ EquivPeek
    \/ \E id \in Ids : EquivRemove(id)
    \/ EquivDestroy

SpecEquiv == InitEquiv /\ [][NextEquiv]_vars

\* ------------------------------------------- an EagerQueue with a history
\* An EagerQueue that pushes have filled: entry i + 1 sits in slot i, as after
\* pushes in array order of entries that never sift up.  There are HeapLen
\* heap cells, one per ID.
HeapIds == 1..HeapLen

\* the times t[1..n] are heap-ordered: no slot is earlier than its parent
HeapOrderedTimes(t, n) == \A i \in 1..(n - 1) : t[parent(i) + 1] <= t[i + 1]

FilledHeaps ==
    UNION {{t \in [1..n -> Times] : HeapOrderedTimes(t, n)} : n \in 1..HeapLen}

InitHeap ==
    /\ kind = "none" /\ cont = <<>> /\ cop = NoRet
    /\ variant = "eager" /\ id_func = NoFunc /\ convertible = TRUE
    /\ ref = NoRef /\ refop = NoRet
    /\ \E t \in FilledHeaps :
        LET n == Len(t) IN
        /\ data = [i \in 1..n |-> i]
        /\ mem = [a \in HeapIds \cup {Dangling} |->
                    IF a \in 1..n THEN EagerEntry(a - 1, t[a], a) ELSE FreeCell]
        /\ m = [id \in 1..n |-> id]
        /\ live = {<<t[a], a>> : a \in 1..n}
    /\ size = 0
    /\ alive = TRUE
    /\ op = Call("init", 0, "ok", NoRet)
    /\ surv = {} /\ popped = <<>> /\ phase = "mixed"

\* one call on the filled queue
HeapReschedule(id, new_time) == op.name = "init" /\ EagerReschedule(id, new_time)

HeapRemove(id) == op.name = "init" /\ EagerRemove(id)

NextHeap ==
    \/ \E id \in HeapIds, new_time \in Times : HeapReschedule(id, new_time)
    \/ \E id \in HeapIds : HeapRemove(id)

SpecHeap == InitHeap /\ [][NextHeap]_vars

\* ------------------------------------------------- RandomSet / RandomDict
\* A container is [v, m, rng]: v the vector of slots, m the unordered_map from
\* key to slot index, rng the generator.  A slot is [key, val]: key stands for
\* the pointer to a key stored in a node of m (Dangling when that node is
\* gone), val for the value kept beside it (a RandomSet keeps none: NoVal).
\* std::mt19937 is a deterministic generator: a state, a step, and a number
\* read off the state; here the states are 0..NumRng-1.
Keys == 1..NumKeys
Vals == 0..(NumVals - 1)
NoVal == 0                   \* V{}: the value-initialised value
RngStates == 0..(NumRng - 1)

\* std::mt19937(seed)
Seeded(seed) == seed % NumRng

\* one run of std::uniform_int_distribution<size_type>(0, n - 1)(rng)
Distrib(rng, n) == [index |-> rng % n, rng |-> (rng + 1) % NumRng]

\* RandomDict(seed): empty vector, empty map
RandomDict_new(seed) == [v |-> <<>>, m |-> <<>>, rng |-> Seeded(seed)]

\* what a member function hands back: the container after the call, how the
\* call ended, what it returned
Did(c, outcome, ret) == [c |-> c, outcome |-> outcome, ret |-> ret]

\* pointers of v whose node has left m point nowhere once the call is over
Settled(c) ==
    [c EXCEPT !.v = [i \in 1..Len(c.v) |->
        IF c.v[i].key \in DOMAIN c.m THEN c.v[i]
        ELSE [c.v[i] EXCEPT !.key = Dangling]]]

\* count(key)
RandomDict_count(c, key) == count(c.m, key)

\* size(): the length of the vector
RandomDict_size(c) == Len(c.v)

\* at(key): v.at(m.at(key)).second
RandomDict_at(c, key) == At(c.v, c.m[key]).val

\* insert(key, val) / emplace(key, val) / RandomSet::insert(key)
RandomDict_insert(c, key, val) ==
    IF key \in DOMAIN c.m THEN Did(c, "ok", 0)
    ELSE Did([c EXCEPT !.m = Emplace(c.m, key, Len(c.v)),
                       !.v = Append(c.v, [key |-> key, val |-> val])], "ok", 1)

\* operator[](key) = val: the slot is appended with V{} when the key is new
RandomDict_subscript(c, key, val) ==
    LET c1 == IF key \in DOMAIN c.m THEN c
              ELSE [c EXCEPT !.m = Emplace(c.m, key, Len(c.v)),
                             !.v = Append(c.v, [key |-> key, val |-> NoVal])]
    IN  Did([c1 EXCEPT !.v = Put(c1.v, c1.m[key], [key |-> key, val |-> val])], "ok", val)

\* variant of erase: the last slot is dropped whatever the key's slot is
RandomDict_erase_PopOnly(c, key) ==
    IF key \notin DOMAIN c.m THEN Did(c, "ok", 0)
    ELSE Did(Settled([c EXCEPT !.m = Erase(c.m, key), !.v = PopBack(c.v)]), "ok", 1)

\* variant of erase: the index of the key that moved is not redirected
RandomDict_erase_NoRedirect(c, key) ==
    IF key \notin DOMAIN c.m THEN Did(c, "ok", 0)
    ELSE LET index_removed == c.m[key]
             v1 == IF index_removed # Len(c.v) - 1
                   THEN Put(c.v, index_removed, Back(c.v)) ELSE c.v
         IN  Did(Settled([c EXCEPT !.m = Erase(c.m, key), !.v = PopBack(v1)]), "ok", 1)

\* erase(key): the last slot is moved into the erased key's slot
RandomDict_erase(c, key) ==
    IF key \notin DOMAIN c.m THEN Did(c, "ok", 0)
    ELSE LET index_removed == c.m[key]
             m1 == Erase(c.m, key)
         IN  IF index_removed # Len(c.v) - 1
             THEN LET v1 == Put(c.v, index_removed, Back(c.v))
                      moved == At(v1, index_removed).key
                  IN  IF moved \notin DOMAIN m1
                      THEN Did(c, "fault", 0)
                      ELSE Did(Settled([c EXCEPT !.m = [m1 EXCEPT ![moved] = index_removed],
                                                 !.v = PopBack(v1)]), "ok", 1)
             ELSE Did(Settled([c EXCEPT !.m = m1, !.v = PopBack(c.v)]), "ok", 1)

\* clear()
RandomDict_clear(c) == Did([c EXCEPT !.v = <<>>, !.m = <<>>], "ok", NoRet)

\* random_pair() / random_elem()
RandomDict_random_pair(c) ==
    IF Len(c.v) = 0 THEN Did(c, "EmptyError", NoRet)
    ELSE LET d == Distrib(c.rng, Len(c.v))
             slot == At(c.v, d.index)
         IN  IF slot.key = Dangling
             THEN Did([c EXCEPT !.rng = d.rng], "fault", NoRet)
             ELSE Did([c EXCEPT !.rng = d.rng], "ok", <<slot.key, slot.val>>)

\* align_v(other): v is rebuilt to point at the keys of this map, slot by
\* slot as m says, with the values of other's slots
align_v(mp, other) ==
    [i \in 1..Cardinality(DOMAIN mp) |->
        IF \E k \in DOMAIN mp : mp[k] = i - 1
        THEN [key |-> CHOOSE k \in DOMAIN mp : mp[k] = i - 1, val |-> other.v[i].val]
        ELSE [key |-> Dangling, val |-> NoVal]]

\* variant of the copy constructor: the generator is not copied
RandomDict_copy_Reseeded(other) ==
    [v |-> align_v(other.m, other), m |-> other.m, rng |-> Seeded(0)]

\* RandomDict(const RandomDict& other)
RandomDict_copy(other) ==
    [v |-> align_v(other.m, other), m |-> other.m, rng |-> other.rng]

\* operator=(const RandomDict& other), this != &other
RandomDict_copy_assign(self, other) ==
    [self EXCEPT !.m = other.m, !.rng = other.rng, !.v = align_v(other.m, other)]

\* RandomDict(RandomDict&& other): the vector and the generator are moved, the
\* nodes of other's map are spliced into the empty map, so the pointers hold
RandomDict_move(other) ==
    [v |-> other.v, rng |-> other.rng, m |-> other.m]

\* operator=(RandomDict&& other), this != &other
RandomDict_move_assign(self, other) ==
    [self EXCEPT !.v = other.v, !.rng = other.rng, !.m = other.m]

\* the two containers are given one call; the queue is not involved
BothRan(name, arg, a, b) ==
    /\ cont' = <<a.c, b.c>>
    /\ cop' = Call(name, arg, <<a.outcome, b.outcome>>, <<a.ret, b.ret>>)
    /\ UNCHANGED <<kind, config, reference, data, size, m, mem, alive, op,
                   live, surv, popped, phase>>

\* no call has faulted
Running == cop.outcome[1] # "fault" /\ cop.outcome[2] # "fault"

RandomInsert(key, val) ==
    /\ Running
    /\ kind = "dict" \/ val = NoVal
    /\ BothRan("insert", <<key, val>>,
               RandomDict_insert(cont[1], key, val), RandomDict_insert(cont[2], key, val))

RandomSubscript(key, val) ==
    /\ Running
    /\ kind = "dict"
    /\ BothRan("subscript", <<key, val>>,
               RandomDict_subscript(cont[1], key, val), RandomDict_subscript(cont[2], key, val))

RandomErase(key) ==
    /\ Running
    /\ BothRan("erase", key, RandomDict_erase(cont[1], key), RandomDict_erase(cont[2], key))

RandomClear ==
    /\ Running
    /\ BothRan("clear", NoRet, RandomDict_clear(cont[1]), RandomDict_clear(cont[2]))

RandomDraw ==
    /\ Running
    /\ BothRan("random_pair", NoRet,
               RandomDict_random_pair(cont[1]), RandomDict_random_pair(cont[2]))

\* a container to assign to: a seed of its own, and one key
Target(seed) == RandomDict_insert(RandomDict_new(seed), NumKeys, NoVal).c

\* auto b = a: the copy takes the second container's place
RandomCopyConstruct ==
    /\ Running
    /\ BothRan("copy", NoRet, Did(cont[1], "ok", NoRet),
               Did(RandomDict_copy(cont[1]), "ok", NoRet))

\* t = a, and t takes the second container's place
RandomCopyAssign(seed) ==
    /\ Running
    /\ BothRan("copy_assign", seed, Did(cont[1], "ok", NoRet),
               Did(RandomDict_copy_assign(Target(seed), cont[1]), "ok", NoRet))

\* auto t = std::move(b), and t takes b's place
RandomMoveConstruct ==
    /\ Running
    /\ BothRan("move", NoRet, Did(cont[1], "ok", NoRet),
               Did(RandomDict_move(cont[2]), "ok", NoRet))

\* t = std::move(b), and t takes b's place
RandomMoveAssign(seed) ==
    /\ Running
    /\ BothRan("move_assign", seed, Did(cont[1], "ok", NoRet),
               Did(RandomDict_move_assign(Target(seed), cont[2]), "ok", NoRet))

\* two containers of one class are constructed with one seed; there is no queue
InitRandom ==
    /\ kind \in {"set", "dict"}
    /\ \E seed \in RngStates :
        /\ cont = <<RandomDict_new(seed), RandomDict_new(seed)>>
        /\ cop = Call("construct", seed, <<"ok", "ok">>, NoRet)
    /\ variant = "none" /\ id_func = NoFunc /\ convertible = TRUE
    /\ data = <<>> /\ size = 0 /\ m = <<>>
    /\ mem = [a \in Addrs \cup {Dangling} |-> FreeCell]
    /\ alive = TRUE /\ op = Call("init", 0, "ok", NoRet)
    /\ live = {} /\ surv = {} /\ popped = <<>> /\ phase = "fill"
    /\ ref = NoRef /\ refop = NoRet

NextRandom ==
    \/ \E key \in Keys, val \in Vals : RandomInsert(key, val)
    \/ \E key \in Keys, val \in Vals : RandomSubscript(key, val)
    \/ \E key \in Keys : RandomErase(key)
    \/ RandomClear
    \/ RandomDraw
    \/ RandomCopyConstruct
    \/ \E seed \in RngStates : RandomCopyAssign(seed)
    \/ RandomMoveConstruct
    \/ \E seed \in RngStates : RandomMoveAssign(seed)

SpecRandom == InitRandom /\ [][NextRandom]_vars

\* ------------------------------------------------------------ properties
TimeAt(i) == mem[At(data, i)].time          \* _data[i]->time
Slots == 0..(Len(data) - 1)
LiveIds == {convert(e[2]) : e \in live}
Tombstones == {i \in Slots : ~mem[At(data, i)].exist}
NonDecreasing(s) == \A i \in 1..(Len(s) - 1) : s[i][1] <= s[i + 1][1]
Range(s) == {s[i] : i \in 1..Len(s)}

\* s lists exactly the pairs of S, each once, in ascending time order
SortedListOf(s, S) ==
    /\ NonDecreasing(s)
    /\ Range(s) = S
    /\ Len(s) = Cardinality(S)

\* C1: after pushes and removes only, popping until the queue is empty has
\* returned exactly the surviving pairs, each once, in ascending time order:
\* when the drain ends (size() is 0, or the process died in a pop), the pairs
\* popped are the survivors sorted by time.
C1_DrainReturnsSortedSurvivors ==
    \/ phase = "mixed"
    \/ ~ \/ (alive /\ phase = "drain" /\ Size = 0)
         \/ (~alive /\ op.name = "pop")
    \/ SortedListOf(popped, surv)

\* C2: the times returned by a run of consecutive successful pops are
\* non-decreasing, in both variants and after any earlier calls.
C2_PopRunNonDecreasing == NonDecreasing(popped)

C2_Witness ==
    /\ phase = "mixed"
    /\ Len(popped) >= 3
    /\ popped[1][1] < popped[2][1] /\ popped[2][1] < popped[3][1]

\* C3: a successful push raises size() by one, a successful pop or remove
\* lowers it by one, and peek, contains and reschedule leave it unchanged.
C3_SizeSteps ==
    [][ /\ (op'.name = "push" /\ op'.outcome = "ok") => Size' = Size + 1
        /\ (op'.name \in {"pop", "remove"} /\ op'.outcome = "ok") => Size' = Size - 1
        /\ op'.name \in {"peek", "contains", "reschedule"} => Size' = Size ]_vars

C3_Witness ==
    /\ variant = "lazy" /\ op.name = "remove" /\ op.outcome = "ok"
    /\ Size = 1 /\ Len(data) = 3

\* C4: in a LazyQueue, size() equals the number of array entries whose exist
\* flag is set and the number of index mappings; it never exceeds the array
\* length and is smaller while a tombstoned entry is in the array.
C4_LazySizeCountsLive ==
    (alive /\ variant = "lazy") =>
        /\ size = Cardinality(Slots \ Tombstones)
        /\ size = Cardinality(DOMAIN m)
        /\ size <= Len(data)
        /\ (Tombstones # {} => size < Len(data))

C4_Witness ==
    /\ alive /\ variant = "lazy" /\ op.name = "peek" /\ op.outcome = "ok"
    /\ Tombstones # {} /\ size >= 1

\* C5: between calls the array is heap-ordered in both variants, tombstoned
\* entries included: no slot holds an earlier time than its parent slot.
C5_HeapOrder ==
    alive => \A i \in Slots \ {0} : TimeAt(parent(i)) <= TimeAt(i)

C5_Witness ==
    /\ alive /\ variant = "eager" /\ op.name = "reschedule" /\ op.outcome = "ok"
    /\ Len(data) = 3 /\ convert(mem[At(data, 0)].payload) = op.arg
    /\ TimeAt(0) < TimeAt(1) /\ TimeAt(0) < TimeAt(2)

\* C6: in an EagerQueue, after every call the entry at slot i has loc = i.
C6_IndexCoherence ==
    (alive /\ variant = "eager") => \A i \in Slots : mem[At(data, i)].loc = i

C6_Witness ==
    /\ alive /\ variant = "eager" /\ op.name = "remove" /\ op.outcome = "ok"
    /\ Len(data) = 2 /\ TimeAt(0) < TimeAt(1)

\* C7: in a LazyQueue the index maps an ID exactly when the array holds an
\* existing entry with that ID; there is at most one such entry, and the
\* mapping points to it, not to a tombstoned or deleted entry.
C7_LazyIndexIsLiveEntries ==
    (alive /\ variant = "lazy") =>
        /\ \A id \in Ids :
             id \in DOMAIN m <=>
                \E i \in Slots : mem[At(data, i)].exist
                                 /\ convert(mem[At(data, i)].payload) = id
        /\ \A i, j \in Slots \ Tombstones :
             convert(mem[At(data, i)].payload) = convert(mem[At(data, j)].payload) => i = j
        /\ \A id \in DOMAIN m :
             /\ \E i \in Slots : At(data, i) = m[id]
             /\ mem[m[id]].exist
             /\ convert(mem[m[id]].payload) = id

C7_Witness ==
    /\ alive /\ variant = "lazy"
    /\ \E i \in Tombstones : \E j \in Slots \ Tombstones :
          mem[At(data, i)].payload = mem[At(data, j)].payload

\* C8: EagerQueue::contains(id) is true exactly when id was pushed and not
\* since popped or removed; the index holds one mapping per array entry and
\* nothing else, so index size = array length = size() and no two array
\* entries share an ID.
C8_EagerIndexIsArray ==
    (alive /\ variant = "eager") =>
        /\ op.name = "contains" => (op.ret <=> op.arg \in LiveIds)
        /\ DOMAIN m = LiveIds
        /\ Cardinality(DOMAIN m) = Len(data) /\ Len(data) = Size
        /\ \A id \in DOMAIN m :
             /\ \E i \in Slots : At(data, i) = m[id]
             /\ mem[m[id]].alloc
             /\ convert(mem[m[id]].payload) = id
        /\ \A i, j \in Slots :
             convert(mem[At(data, i)].payload) = convert(mem[At(data, j)].payload) => i = j

C8_Witness ==
    /\ alive /\ variant = "eager" /\ op.name = "contains" /\ op.ret = FALSE
    /\ Len(data) = 2

\* C9: push of a payload whose ID is in the queue fails (the assertion) and
\* leaves size() unchanged, in both variants.
C9_DuplicatePushFails ==
    [][ (op'.name = "push" /\ convert(op'.arg) \in LiveIds)
            => (op'.outcome = "DuplicateKeyError" /\ Size' = Size) ]_vars

C9_Witness == op.name = "push" /\ op.outcome = "DuplicateKeyError" /\ Size >= 2

\* C10: remove of an ID that is not in the queue fails and leaves size()
\* unchanged; in a LazyQueue a second remove of an ID, with no push of it in
\* between, fails although the tombstoned entry is still in the array.
C10_RemoveAbsentFails ==
    [][ /\ (op'.name = "remove" /\ op'.arg \notin LiveIds)
            => (op'.outcome = "NotFoundError" /\ Size' = Size)
        /\ (op.name = "remove" /\ op.outcome = "ok" /\ op'.name = "remove"
            /\ op'.arg = op.arg) => op'.outcome = "NotFoundError" ]_vars

C10_Witness ==
    /\ variant = "lazy" /\ op.name = "remove" /\ op.outcome = "NotFoundError"
    /\ \E i \in Tombstones : convert(mem[At(data, i)].payload) = op.arg
    /\ Size >= 1
\* the (time, payload) pairs of the array entries that exist
QueueLive ==
    {<<mem[At(data, i)].time, mem[At(data, i)].payload>> : i \in Slots \ Tombstones}

\* what peek() returns when called in the current state
PeekNow ==
    IF variant = "lazy"
    THEN LET r == LazyPeekLoop(data, mem, size) IN [outcome |-> r.outcome, ret |-> r.ret]
    ELSE IF Len(data) > 0
         THEN [outcome |-> "ok", ret |-> <<TimeAt(0), mem[At(data, 0)].payload>>]
         ELSE [outcome |-> "undefined", ret |-> NoRet]

\* C11: LazyQueue::pop and LazyQueue::peek called while no array entry
\* exists (tombstoned entries may still be in the array), and EagerQueue::pop
\* called on an empty array, throw EmptyQueueError and leave array, cells,
\* index and live count as they were.
C11_EmptyPopPeekFails ==
    [][ ( \/ variant = "lazy" /\ op'.name \in {"pop", "peek"} /\ Slots \ Tombstones = {}
          \/ variant = "eager" /\ op'.name = "pop" /\ Len(data) = 0 )
        => ( /\ op'.outcome = "EmptyQueueError" /\ alive'
             /\ data' = data /\ mem' = mem /\ m' = m /\ size' = size ) ]_vars

C11_Witness ==
    /\ variant = "lazy" /\ op.name = "peek" /\ op.outcome = "EmptyQueueError"
    /\ Len(data) >= 2 /\ Tombstones = Slots

\* C12: EagerQueue::peek on an empty queue fails with EmptyQueueError.
C12_EagerPeekEmptyFails ==
    (variant = "eager" /\ op.name = "peek" /\ Len(data) = 0)
        => op.outcome = "EmptyQueueError"

\* C13: in both variants, right after a peek() that returned a pair, another
\* peek() returns the same pair, also when the first one discarded
\* tombstoned roots.
C13_PeekTwiceSame ==
    (alive /\ op.name = "peek" /\ op.outcome = "ok")
        => (PeekNow.outcome = "ok" /\ PeekNow.ret = op.ret)

C13_Witness ==
    /\ alive /\ variant = "lazy" /\ op.name = "peek" /\ op.outcome = "ok"
    /\ Len(data) = 3 /\ Cardinality(Tombstones) = 2

\* C14: in both variants a successful peek() returns a pair that was pushed
\* and not since popped or removed, that belongs to an existing array entry
\* and whose time is at most the time of every existing entry; the set of
\* existing entries is the same before and after the call.
C14_PeekReturnsLiveMinimum ==
    [][ (op'.name = "peek" /\ op'.outcome = "ok")
        => ( /\ op'.ret \in live /\ op'.ret \in QueueLive
             /\ \A e \in QueueLive : op'.ret[1] <= e[1]
             /\ QueueLive' = QueueLive /\ live' = live ) ]_vars

C14_Witness ==
    /\ alive /\ variant = "lazy" /\ op.name = "peek" /\ op.outcome = "ok"
    /\ Cardinality(QueueLive) = 2 /\ Tombstones # {}
    /\ \E e \in QueueLive : op.ret[1] < e[1]

\* C15: in an EagerQueue, after reschedule(id, t) of a present ID the index
\* still maps id, the whole array is heap-ordered, the entries are the
\* earlier ones with id's time replaced by t, and the root that peek() returns
\* has the least time of them all.
C15_RescheduleKeepsOrder ==
    (alive /\ variant = "eager" /\ op.name = "reschedule" /\ op.outcome = "ok") =>
        /\ op.arg \in DOMAIN m
        /\ \A i \in Slots \ {0} : TimeAt(parent(i)) <= TimeAt(i)
        /\ QueueLive = live
        /\ PeekNow.outcome = "ok" /\ PeekNow.ret \in live
        /\ \A e \in live : PeekNow.ret[1] <= e[1]

C15_Witness ==
    /\ alive /\ variant = "eager" /\ op.name = "reschedule" /\ op.outcome = "ok"
    /\ Len(data) = 3 /\ convert(mem[At(data, 2)].payload) = op.arg
    /\ TimeAt(0) < TimeAt(1) /\ TimeAt(1) < TimeAt(2)

\* C16: EagerQueue::reschedule of an ID that is not in the queue fails (the
\* assertion) and leaves every entry's time and position as it was.
C16_RescheduleAbsentFails ==
    [][ (op'.name = "reschedule" /\ op'.arg \notin LiveIds)
        => ( /\ op'.outcome = "NotFoundError"
             /\ data' = data /\ mem' = mem /\ m' = m ) ]_vars

C16_Witness ==
    /\ variant = "eager" /\ op.name = "reschedule" /\ op.outcome = "NotFoundError"
    /\ Len(data) = 2
\* the ID a payload is expected to have in the current configuration
KeyOf(payload) == IF id_func = NoFunc THEN payload ELSE IdOf(payload)

\* C19: on a queue constructed without an extraction function whose payload
\* type does not stand in for the ID type, push fails with ConversionError
\* (the assertion in convert) and leaves array, cells, index and size as they
\* were.
C19_UnconvertiblePushFails ==
    [][ (op'.name = "push" /\ id_func = NoFunc /\ ~convertible)
        => ( /\ op'.outcome = "ConversionError"
             /\ data' = data /\ mem' = mem /\ m' = m /\ Size' = Size ) ]_vars

C19_Witness ==
    /\ variant = "lazy" /\ id_func = NoFunc /\ ~convertible
    /\ op.name = "push" /\ op.outcome = "ConversionError" /\ Len(data) = 0

\* C20: every entry is indexed under the extraction function applied to its
\* payload when the queue has one (also when T converts to ID), and under the
\* payload itself otherwise: push adds exactly that key, pop erases exactly
\* the key of the pair it returns, remove(id) takes away the entry with that
\* key, contains(id) tells whether an entry has that key, and reschedule(id)
\* changes no entry with another key.
C20_KeyIsExtractedId ==
    [][ /\ alive' => \A id \in DOMAIN m' : KeyOf(mem'[m'[id]].payload) = id
        /\ (op'.name = "push" /\ op'.outcome = "ok")
             => (KeyOf(op'.arg) \notin DOMAIN m /\ DOMAIN m' = DOMAIN m \cup {KeyOf(op'.arg)})
        /\ (op'.name = "pop" /\ op'.outcome = "ok")
             => (KeyOf(op'.ret[2]) \in DOMAIN m /\ DOMAIN m' = DOMAIN m \ {KeyOf(op'.ret[2])})
        /\ (op'.name = "remove" /\ op'.outcome = "ok")
             => \E e \in QueueLive : KeyOf(e[2]) = op'.arg /\ QueueLive' = QueueLive \ {e}
        /\ op'.name = "contains"
             => (op'.ret <=> \E e \in QueueLive : KeyOf(e[2]) = op'.arg)
        /\ (op'.name = "reschedule" /\ op'.outcome = "ok")
             => /\ \E e \in QueueLive : KeyOf(e[2]) = op'.arg
                /\ \A e \in QueueLive : KeyOf(e[2]) # op'.arg => e \in QueueLive' ]_vars

C20_Witness ==
    /\ alive /\ id_func = "f" /\ convertible
    /\ op.name = "remove" /\ op.outcome = "ok" /\ op.arg = 1
    /\ \E e \in QueueLive : e[2] = 1
\* C17: a LazyQueue constructed from a vector of pairs with distinct IDs
\* has size() equal to the vector's length, and every later push, pop, peek
\* and remove ends on it as it ends on a queue into which the pairs were
\* pushed one by one (same outcome, same returned pair, same size()), all
\* times being distinct.
C17_BulkLikePushes ==
    /\ (op.name = "construct" /\ op.outcome = "ok") => Size = Len(op.arg)
    /\ refop.outcome = op.outcome /\ refop.ret = op.ret
    /\ alive => ref.size = Size

C17_Witness ==
    /\ alive /\ op.name = "peek" /\ op.outcome = "ok"
    /\ Size = 2 /\ Len(data) = 3 /\ ref.mem # mem

HasDuplicateIds(input) ==
    \E i, j \in DOMAIN input : i # j /\ KeyOf(input[i][2]) = KeyOf(input[j][2])

\* C18: constructing a LazyQueue from a vector in which two payloads have the
\* same ID fails with DuplicateKeyError (the assertion): the process is
\* aborted and no call on the queue can follow.
C18_BulkDuplicateFails ==
    (op.name = "construct" /\ HasDuplicateIds(op.arg))
        => (op.outcome = "DuplicateKeyError" /\ ~alive /\ ~ENABLED NextBulk)

C18_Witness ==
    /\ op.name = "construct" /\ op.outcome = "DuplicateKeyError"
    /\ Len(op.arg) = 3 /\ op.arg[1][2] = op.arg[3][2] /\ Len(data) = 2
\* the failures a call reports to its caller
Errors == {"EmptyQueueError", "DuplicateKeyError", "NotFoundError", "ConversionError"}

ValueOf(c, k) ==
    IF k \in DOMAIN c.m /\ c.m[k] < Len(c.v) THEN RandomDict_at(c, k) ELSE -1

\* erase(key) took container c to container d and returned ret as it should
ErasedRight(c, d, key, ret) ==
    IF RandomDict_count(c, key) = 1
    THEN /\ ret = 1
         /\ RandomDict_count(d, key) = 0
         /\ RandomDict_size(d) = RandomDict_size(c) - 1
         /\ \A k \in Keys \ {key} :
                RandomDict_count(c, k) = 1
                    => RandomDict_count(d, k) = 1 /\ ValueOf(d, k) = ValueOf(c, k)
    ELSE ret = 0 /\ d = c

\* C22: RandomSet::erase and RandomDict::erase of a present key return 1, make
\* count(key) 0 and size() one less, and keep every other key present with its
\* stored value; erase of an absent key returns 0 and changes nothing, so the
\* same key erased twice in a row gives 1 and then 0.
C22_EraseRemovesOneKey ==
    [][ cop'.name = "erase"
        => /\ ErasedRight(cont[1], cont'[1], cop'.arg, cop'.ret[1])
           /\ ErasedRight(cont[2], cont'[2], cop'.arg, cop'.ret[2])
           /\ (cop.name = "erase" /\ cop.arg = cop'.arg /\ cop.ret[1] = 1)
                  => cop'.ret[1] = 0 ]_vars

C22_Witness ==
    /\ kind = "dict" /\ cop.name = "erase" /\ cop.arg = 1 /\ cop.ret = <<1, 1>>
    /\ RandomDict_size(cont[1]) = 2
    /\ At(cont[1].v, 0).key = 3 /\ At(cont[1].v, 1).key = 2
    /\ RandomDict_at(cont[1], 3) = 1 /\ RandomDict_at(cont[1], 2) = 0

\* C23: two containers constructed with the same seed and given the same
\* insert, erase and draw calls, the second possibly replaced on the way by a
\* copy of the first or by a container move-constructed or move-assigned from
\* itself, end every random_pair / random_elem call alike: the same element,
\* or the same failure.
C23_SameSeedSameDraws ==
    cop.name = "random_pair"
        => cop.ret[1] = cop.ret[2] /\ cop.outcome[1] = cop.outcome[2]

C23_Witness ==
    /\ kind = "dict" /\ cop.name = "random_pair" /\ cop.outcome = <<"ok", "ok">>
    /\ RandomDict_size(cont[2]) = 3
    /\ cop.ret[2] = <<2, 1>> /\ At(cont[2].v, 2).key = 2
    /\ cont[2].rng = 0

\* array and cells st are heap-ordered: no slot is earlier than its parent
OrderedIn(st) ==
    \A i \in 1..(Len(st.data) - 1) :
        st.mem[At(st.data, parent(i))].time <= st.mem[At(st.data, i)].time

\* the array with the time of entry e replaced by t, before any repair
Retimed(e, t) == [data |-> data, mem |-> [mem EXCEPT ![e].time = t]]

\* C24: EagerQueue::fix(slot) is sufficient.  On a heap-ordered array in which
\* the time of one slot is replaced by any value, fix (sift down, and sift up
\* only when the sift-down swapped nothing) leaves the whole array
\* heap-ordered, and whenever the sift-down swapped, the array is heap-ordered
\* already without any sift-up.
C24_FixIsSufficient ==
    [][ (op'.name = "reschedule" /\ op'.outcome = "ok")
        => /\ OrderedIn([data |-> data', mem |-> mem'])
           /\ \A t \in Times :
                LET e == m[op'.arg]
                    down == perc_down(Retimed(e, t), mem[e].loc)
                IN /\ down.moved => OrderedIn(down)
                   /\ OrderedIn(fix(Retimed(e, t), mem[e].loc)) ]_vars

\* the entry pushed last into a queue of six has been rescheduled and now is the root
C24_Witness ==
    /\ op.name = "reschedule" /\ op.outcome = "ok" /\ op.arg = 6
    /\ Len(data) = 6 /\ m[6] = At(data, 0)
    /\ TimeAt(0) < TimeAt(2) /\ TimeAt(2) < TimeAt(5)

\* C25: EagerQueue::remove(id) of a present ID deletes exactly that entry,
\* wherever it sits (root, interior or last slot): afterwards contains(id) is
\* false and the (time, ID) pairs of the array are those before without the
\* removed one, each once, also when the last entry is moved into a slot of
\* another subtree and sifts up from there.
C25_RemoveDeletesExactlyOne ==
    [][ (op'.name = "remove" /\ op'.outcome = "ok")
        => LET id == op'.arg
               Pairs(d, mm) == {<<mm[d[i]].time, convert(mm[d[i]].payload)>> : i \in 1..Len(d)}
           IN /\ id \in DOMAIN m
              /\ id \notin DOMAIN m'
              /\ Len(data') = Len(data) - 1
              /\ Pairs(data', mem') = Pairs(data, mem) \ {<<mem[m[id]].time, id>>}
              /\ Cardinality(Pairs(data', mem')) = Len(data')
              /\ OrderedIn([data |-> data', mem |-> mem']) ]_vars

\* the entry of slot 3 was removed from a queue of six; the last entry, of the
\* other subtree, took its slot and sifted up to slot 1
C25_Witness ==
    /\ op.name = "remove" /\ op.outcome = "ok" /\ op.arg = 4
    /\ Len(data) = 5 /\ m[6] = At(data, 1) /\ m[2] = At(data, 3)

\* C26: in both variants a pop() that returns hands back the pair of one live
\* entry, with the payload as pushed and the time as pushed or last
\* rescheduled, no later than any other live entry, and removes exactly that
\* entry: its ID leaves the index, every other live entry stays as it was.
C26_PopTakesLiveMinimum ==
    [][ (op'.name = "pop" /\ op'.outcome = "ok")
        => ( /\ op'.ret \in live /\ op'.ret \in QueueLive
             /\ \A e \in QueueLive : op'.ret[1] <= e[1]
             /\ convert(op'.ret[2]) \in DOMAIN m
             /\ DOMAIN m' = DOMAIN m \ {convert(op'.ret[2])}
             /\ QueueLive' = QueueLive \ {op'.ret}
             /\ live' = live \ {op'.ret}
             /\ Cardinality(QueueLive') = Cardinality(QueueLive) - 1 ) ]_vars

C26_Witness ==
    /\ alive /\ variant = "lazy" /\ op.name = "pop" /\ op.outcome = "ok"
    /\ Tombstones # {} /\ Cardinality(QueueLive) = 1
    /\ \A e \in QueueLive : op.ret[1] < e[1] /\ DOMAIN m = {convert(e[2])}

\* C27: LazyQueue::remove(id) of a live ID leaves the array as it is, in
\* length, in order and in every entry's time and payload: it only clears the
\* exist flag of id's entry, which stays in its slot, erases id from the index
\* and takes one off the live count.
C27_LazyRemoveOnlyTombstones ==
    [][ (variant = "lazy" /\ op'.name = "remove" /\ op'.outcome = "ok")
        => LET id == op'.arg IN
           /\ id \in DOMAIN m /\ mem[m[id]].exist
           /\ data' = data
           /\ \A i \in Slots :
                LET before == mem[At(data, i)]
                    after == mem'[At(data, i)]
                IN /\ after.alloc /\ after.time = before.time
                   /\ after.payload = before.payload
                   /\ after.exist = (before.exist /\ At(data, i) # m[id])
           /\ DOMAIN m' = DOMAIN m \ {id}
           /\ \A k \in DOMAIN m' : m'[k] = m[k]
           /\ size' = size - 1 ]_vars

\* the root of three entries has been removed and is still the root
C27_Witness ==
    /\ alive /\ variant = "lazy" /\ op.name = "remove" /\ op.outcome = "ok"
    /\ Len(data) = 3 /\ size = 1 /\ 0 \in Tombstones
    /\ convert(mem[At(data, 0)].payload) = op.arg
    /\ TimeAt(0) < TimeAt(1) /\ TimeAt(0) < TimeAt(2)

\* C28: LazyQueue::peek takes out of the array only entries that are
\* tombstoned, never a live one, and changes neither the index nor the live
\* count; when it returns, the root is the live entry it returned and no
\* tombstoned entry left in the array is earlier.
C28_PeekDiscardsOnlyTombstones ==
    [][ (variant = "lazy" /\ op'.name = "peek")
        => ( /\ QueueLive' = QueueLive
             /\ Cardinality(Slots' \ Tombstones') = Cardinality(Slots \ Tombstones)
             /\ Len(data) - Len(data') = Cardinality(Tombstones) - Cardinality(Tombstones')
             /\ DOMAIN m' = DOMAIN m
             /\ \A k \in DOMAIN m :
                    /\ mem'[m'[k]].payload = mem[m[k]].payload
                    /\ mem'[m'[k]].time = mem[m[k]].time
                    /\ mem'[m'[k]].exist = mem[m[k]].exist
             /\ size' = size
             /\ op'.outcome = "ok"
                    => /\ Len(data') > 0 /\ 0 \notin Tombstones'
                       /\ op'.ret = <<TimeAt(0)', mem'[At(data', 0)].payload>>
                       /\ \A i \in Tombstones' : TimeAt(0)' <= TimeAt(i)' ) ]_vars

\* peek has returned the root; a tombstoned entry, later than the root, is
\* still in the array
C28_Witness ==
    /\ alive /\ variant = "lazy" /\ op.name = "peek" /\ op.outcome = "ok"
    /\ Len(data) = 2 /\ Tombstones = {1} /\ size = 1 /\ TimeAt(0) < TimeAt(1)

\* C29: the purge loops of LazyQueue::pop and LazyQueue::peek always end and
\* never take the root of an empty array.  Whenever the live count is positive
\* the array holds a live entry, so the call returns; every iteration that
\* meets a tombstoned root makes the array one shorter, and the loop stops at
\* the first live root, after no more iterations than the array has entries.
\* With a live count of zero the loop body is not entered at all.
C29_PurgeLoopsTerminate ==
    [][ (variant = "lazy" /\ op'.name \in {"pop", "peek"})
        => LET gone == Len(data) - Len(data')
               tombs == Cardinality(Tombstones) - Cardinality(Tombstones')
               iterations == IF op'.name = "peek" /\ op'.outcome = "ok"
                             THEN gone + 1 ELSE gone
           IN /\ op'.outcome \in {"ok", "EmptyQueueError"}
              /\ size > 0 => Slots \ Tombstones # {} /\ op'.outcome = "ok"
              /\ size = 0 => op'.outcome = "EmptyQueueError" /\ data' = data
              /\ tombs >= 0
              /\ op'.name = "peek" => gone = tombs
              /\ (op'.name = "pop" /\ op'.outcome = "ok") => gone = tombs + 1
              /\ iterations <= Len(data) ]_vars

\* one pop after pushes and removes: it has returned a pair and left a
\* tombstoned entry, later than that pair, in the array
C29_Witness ==
    /\ alive /\ variant = "lazy" /\ op.name = "pop" /\ op.outcome = "ok"
    /\ phase = "drain" /\ Len(popped) = 1
    /\ Len(data) = 1 /\ Tombstones = {0} /\ op.ret[1] < TimeAt(0)

\* C30: in both variants a pop() that comes right after a peek() that returned
\* a pair returns that same (time, payload) pair, also when several live
\* entries share the least time.
C30_PopAfterPeekSame ==
    [][ (op.name = "peek" /\ op.outcome = "ok" /\ op'.name = "pop")
        => (op'.outcome = "ok" /\ op'.ret = op.ret) ]_vars

\* C31: in a LazyQueue an ID that was removed can be pushed again, with any
\* time, while its tombstoned entry is still in the array.  The push succeeds;
\* pop and peek return only live pairs, never the tombstoned one; taking a
\* tombstoned entry off the array leaves the index mapping of the new entry
\* and the live count alone; and a pop that returns the new entry takes it out
\* of the live pairs, so it is returned once.
C31_RepushAfterRemove ==
    [][ variant = "lazy" =>
        /\ (op'.name = "push" /\ convert(op'.arg) \notin DOMAIN m)
              => op'.outcome = "ok" /\ convert(op'.arg) \in DOMAIN m'
        /\ (op'.name \in {"pop", "peek"} /\ live # {})
              => /\ op'.outcome = "ok"
                 /\ op'.ret \in live /\ op'.ret \in QueueLive
        /\ (op'.name = "peek")
              => DOMAIN m' = DOMAIN m /\ size' = size /\ live' = live
        /\ (op'.name = "pop" /\ op'.outcome = "ok")
              => /\ DOMAIN m' = DOMAIN m \ {convert(op'.ret[2])}
                 /\ size' = size - 1
                 /\ live' = live \ {op'.ret} /\ QueueLive' = live'
        /\ \A id \in LiveIds' : id \in DOMAIN m' /\ mem'[m'[id]].exist
        /\ size' = Cardinality(live') ]_vars

\* ID 1 was removed and pushed again with an earlier time; pop has returned
\* the new entry, and the tombstoned one is still in the array
C31_Witness ==
    /\ alive /\ variant = "lazy" /\ op.name = "pop" /\ op.outcome = "ok"
    /\ op.ret[2] = 1 /\ op.ret \notin live
    /\ \E i \in Tombstones : mem[At(data, i)].payload = 1 /\ op.ret[1] < TimeAt(i)

\* C32: no EagerQueue call subscripts the array at or beyond its current
\* length, pop on a queue of one entry and remove of the only entry included.
\* A subscript beyond the length is undefined behaviour; the calls that make
\* one end in a fault, or return what the stale storage holds.
C32_EagerSubscriptsInRange ==
    variant = "eager" => op.outcome \notin {"fault", "undefined"}

\* C33: EagerQueue::reschedule(id, new_time) changes the time of id's entry
\* and nothing else: the IDs in the queue, size(), every payload and the time
\* of every other entry stay, each entry is in one slot with loc naming that
\* slot, and only the slots the entries sit in may change; a reschedule to the
\* time the entry already has leaves the array exactly as it was.
C33_RescheduleChangesOneTime ==
    [][ (op'.name = "reschedule" /\ op'.outcome = "ok")
        => LET id == op'.arg IN
           /\ DOMAIN m' = DOMAIN m
           /\ Len(data') = Len(data)
           /\ \A k \in DOMAIN m :
                /\ mem'[m'[k]].payload = mem[m[k]].payload
                /\ k # id => mem'[m'[k]].time = mem[m[k]].time
           /\ \A k \in DOMAIN m' :
                \E i \in Slots' : At(data', i) = m'[k] /\ mem'[m'[k]].loc = i
           /\ <<mem'[m'[id]].time, mem'[m'[id]].payload>> \in live'
           /\ mem'[m'[id]].time = mem[m[id]].time
                => data' = data /\ mem' = mem /\ m' = m ]_vars

\* the root of a queue of six was rescheduled to a time that both its
\* children have too: it is still the root and no entry has moved
C33_Witness ==
    /\ op.name = "reschedule" /\ op.outcome = "ok" /\ op.arg = 1
    /\ Len(data) = 6 /\ m[1] = At(data, 0) /\ \A i \in 1..6 : m[i] = i
    /\ TimeAt(0) = TimeAt(1) /\ TimeAt(0) = TimeAt(2) /\ TimeAt(2) < TimeAt(5)

\* C34: LazyQueue and EagerQueue cannot be told apart by their common calls.
\* Given the same valid calls in any order, with distinct times, every call
\* ends alike on both: the same (time, payload) returned, the same size().
C34_LazyEagerAlike ==
    /\ op.outcome = refop.outcome /\ op.ret = refop.ret
    /\ alive => Len(data) = ref.size

\* the addresses of the entries that are allocated and not deleted
Allocated(mm) == {a \in DOMAIN mm : mm[a].alloc}

\* the addresses the array d holds
Cells(d) == {d[i] : i \in 1..Len(d)}

\* every entry not deleted is in exactly one slot of the array, the array
\* points at nothing else, and the index points only at such entries
Owned(q) ==
    /\ Cells(q.data) = Allocated(q.mem)
    /\ Cardinality(Cells(q.data)) = Len(q.data)
    /\ \A id \in DOMAIN q.m : q.m[id] \in Allocated(q.mem)

\* C35: every entry allocated by a successful push is deleted exactly once:
\* by the pop that returns it, by the purge of a tombstoned root in
\* LazyQueue::pop or peek, by EagerQueue::remove, or by the destructor.
\* Whatever a call leaves, array and index point only at entries that are not
\* deleted and every such entry is in exactly one slot, so the destructor
\* deletes each of them once and nothing is left.  LazyQueue::remove deletes
\* nothing.
C35_EntriesOwnedOnce ==
    [][ LET e == ThisQueue
            l == ref
            gone(before, after) == Allocated(before.mem) \ Allocated(after.mem)
            born(before, after) == Allocated(after.mem) \ Allocated(before.mem)
        IN
        /\ alive' => Owned([data |-> data', mem |-> mem', m |-> m']) /\ Owned(ref')
        /\ (op'.name = "push" /\ op'.outcome = "ok") =>
              LET p == CHOOSE x \in live' \ live : TRUE
                  ra == EagerPushedRaw(e, p[1], p[2])
                  rb == LazyPushedRaw(l, p[1], p[2])
              IN /\ Owned(ra) /\ Cardinality(born(e, ra)) = 1 /\ gone(e, ra) = {}
                 /\ Owned(rb) /\ Cardinality(born(l, rb)) = 1 /\ gone(l, rb) = {}
        /\ (op'.name = "pop" /\ op'.outcome = "ok") =>
              LET ra == EagerPoppedRaw(e, "stale")
                  rb == LazyPopLoop(l.data, l.mem, l.size, l.m)
              IN /\ Owned(ra) /\ born(e, ra) = {} /\ gone(e, ra) = {At(e.data, 0)}
                 /\ Owned(rb) /\ born(l, rb) = {}
                 /\ Cardinality({a \in gone(l, rb) : l.mem[a].exist}) = 1
        /\ (op'.name = "peek") =>
              LET rb == LazyPeekLoop(l.data, l.mem, l.size)
              IN /\ Owned([data |-> rb.data, mem |-> rb.mem, m |-> l.m])
                 /\ born(l, rb) = {}
                 /\ \A a \in gone(l, rb) : ~l.mem[a].exist
                 /\ mem' = mem
        /\ (op'.name = "remove" /\ op'.outcome = "ok") =>
              LET ra == EagerRemovedRaw(e, op'.arg)
              IN /\ Owned(ra) /\ born(e, ra) = {} /\ gone(e, ra) = {e.m[op'.arg]}
                 /\ Allocated(ref'.mem) = Allocated(l.mem) /\ ref'.data = l.data
        /\ (op'.name = "destroy") =>
              /\ Owned(e) /\ Owned(l)
              /\ Allocated(mem') = {} /\ Allocated(ref'.mem) = {} ]_vars

\* both queues were destroyed while they held two entries: nothing is left
\* allocated
C35_Witness ==
    /\ op.name = "destroy" /\ ~alive /\ Cardinality(live) = 2
    /\ Allocated(mem) = {} /\ Allocated(ref.mem) = {}

\* map and vector of container c agree: size() is the number of keys, the
\* indices of the map are exactly 0..size()-1, so that with as many keys as
\* indices none repeats, and the slot at m[k] points at key k
Coherent(c) ==
    /\ RandomDict_size(c) = Cardinality(DOMAIN c.m)
    /\ {c.m[k] : k \in DOMAIN c.m} = 0..(RandomDict_size(c) - 1)
    /\ \A k \in DOMAIN c.m : At(c.v, c.m[k]).key = k

\* the keys S of container c are in container d at the same index and with
\* the same value
Kept(c, d, S) ==
    \A k \in S : d.m[k] = c.m[k] /\ RandomDict_at(d, k) = RandomDict_at(c, k)

\* the call cop' took container c to container d as it should: the slot of a
\* key holds the value last given to it, and erase of a key that is not in
\* the last slot moves the last slot into the freed one
TookRight(c, d) ==
    /\ Coherent(d)
    /\ kind = "set" => \A k \in DOMAIN d.m : RandomDict_at(d, k) = NoVal
    /\ CASE cop'.name = "insert" ->
               LET key == cop'.arg[1] IN
               /\ DOMAIN d.m = DOMAIN c.m \cup {key}
               /\ key \notin DOMAIN c.m => RandomDict_at(d, key) = cop'.arg[2]
               /\ Kept(c, d, DOMAIN c.m)
         [] cop'.name = "subscript" ->
               LET key == cop'.arg[1] IN
               /\ DOMAIN d.m = DOMAIN c.m \cup {key}
               /\ RandomDict_at(d, key) = cop'.arg[2]
               /\ key \in DOMAIN c.m => d.m[key] = c.m[key]
               /\ Kept(c, d, DOMAIN c.m \ {key})
         [] cop'.name = "erase" ->
               LET key == cop'.arg IN
               IF key \in DOMAIN c.m
               THEN LET last == Back(c.v).key IN
                    /\ DOMAIN d.m = DOMAIN c.m \ {key}
                    /\ last # key => /\ d.m[last] = c.m[key]
                                      /\ RandomDict_at(d, last) = RandomDict_at(c, last)
                    /\ Kept(c, d, DOMAIN c.m \ {key, last})
               ELSE d.v = c.v /\ d.m = c.m
         [] cop'.name = "clear" -> d.v = <<>> /\ d.m = <<>>
         [] OTHER -> d.v = c.v /\ d.m = c.m

\* C36: in RandomSet and RandomDict, after any sequence of insert, emplace,
\* operator[], erase and clear (and of draws, copies and moves), map and
\* vector are coherent: the map's indices are exactly 0..size()-1 without
\* repeats, slot m[k] points at key k and, in a RandomDict, holds the value
\* last given to k, and size() is the number of keys; erase of a key that is
\* not in the last slot moves the last slot into the freed slot and redirects
\* the index of the key that moved.  The second container, which copies and
\* moves replace on the way, has the map and the vector of the first.
C36_MapAndVectorCoherent ==
    [][ /\ TookRight(cont[1], cont'[1])
        /\ cont'[2].v = cont'[1].v /\ cont'[2].m = cont'[1].m ]_vars

\* erase(1) has taken one key of three out of a RandomDict: keys 3 and 2 are
\* left in slots 0 and 1, each with its value 1
C36_Witness ==
    /\ kind = "dict" /\ cop.name = "erase" /\ cop.arg = 1 /\ cop.ret = <<1, 1>>
    /\ RandomDict_size(cont[1]) = 2
    /\ cont[1].m[3] = 0 /\ cont[1].m[2] = 1
    /\ RandomDict_at(cont[1], 3) = 1 /\ RandomDict_at(cont[1], 2) = 1

=============================================================================
